---- MODULE Spec2Model ----
(***************************************************************************)
(* Schedule comparison server (src/server/routes.ts, src/server/storage.ts,*)
(* src/server/routes_backup.ts) and the client-side statistics helpers     *)
(* (src/client/src/lib/data-processor.ts, statistics-tab.tsx).             *)
(*                                                                         *)
(* Numbers that the source writes with two decimals (49.27 hours, 22.39    *)
(* minutes) are kept as integers in hundredths (4927, 2239).               *)
(* A JavaScript number that may be NaN or infinite is a record             *)
(* [k |-> "num" | "NaN" | "Infinity" | "-Infinity", n |-> .., d |-> ..]    *)
(* standing for the quotient n/d when k = "num".                           *)
(***************************************************************************)
EXTENDS Integers, Sequences, FiniteSets, TLC

VARIABLES
    files,                \* the attached_assets CSV files the load handler reads
    teamAvailability,     \* MemStorage.teamAvailability, in insertion order
    optimizedSchedule,    \* MemStorage.optimizedSchedule, in insertion order
    travelTimeAnalytics,  \* (global as any).travelTimeAnalytics
    loadPc,               \* position of the POST /api/load-csv-data handler
    pending,              \* items the running bulkCreate* loop has not inserted yet
    resp,                 \* the last HTTP response sent
    pre,                  \* history: stores and snapshot when the running/last load began
    everLoaded,           \* history: some load has answered with success
    servedLoaded,         \* history: everLoaded when the request answered by resp arrived
    input,                \* argument of a pure computation
    output                \* its result

vars == <<files, teamAvailability, optimizedSchedule, travelTimeAnalytics,
          loadPc, pending, resp, pre, everLoaded, servedLoaded, input, output>>

serverVars == <<files, teamAvailability, optimizedSchedule, travelTimeAnalytics,
                loadPc, pending, resp, pre, everLoaded, servedLoaded>>

calcVars == <<input, output>>

---------------------------------------------------------------------------
(* Bounds of the model *)

MaxRows == 2
MaxSamples == 4
MaxSampleValue == 4
MaxDays == 2
MaxMinutes == 2
MaxCustomers == 1
MaxVisits == 3
MaxStops == 2
MaxItems == 3
MaxStored == 3
MaxTeams == 2
MaxAddresses == 4
MaxLoads == 3

SeqsUpTo(S, n) == UNION {[1..k -> S] : k \in 0..n}

RECURSIVE SumSeq(_)
SumSeq(s) == IF s = <<>> THEN 0 ELSE Head(s) + SumSeq(Tail(s))

\* s.map(F) of Array.prototype.map
MapSeq(s, F(_)) == [i \in 1..Len(s) |-> F(s[i])]

---------------------------------------------------------------------------
(* JavaScript numbers and string-to-number conversion *)

Num(n) == [k |-> "num", n |-> n, d |-> 1]
NaN == [k |-> "NaN", n |-> 0, d |-> 1]

\* The numeric strings that occur in the modelled CSV cells.
TokenValue ==
    ("0" :> 0) @@ ("1" :> 1) @@ ("2" :> 2) @@ ("3" :> 3) @@ ("4" :> 4) @@ ("5" :> 5) @@
    ("15" :> 15) @@ ("20" :> 20) @@ ("30" :> 30) @@ ("55" :> 55) @@
    ("101" :> 101) @@ ("102" :> 102) @@ ("201" :> 201) @@ ("372" :> 372) @@
    ("-1" :> (0 - 1))

\* parseInt / parseFloat on a CSV cell: a number for a numeric string, NaN for
\* "", "null", any other text and for a missing cell (undefined).
parseInt(tok) == IF tok \in DOMAIN TokenValue THEN Num(TokenValue[tok]) ELSE NaN
parseFloat(tok) == IF tok \in DOMAIN TokenValue THEN Num(TokenValue[tok]) ELSE NaN
isNaN(x) == x.k = "NaN"

\* A cell read past the end of a short row.
Undefined == "<undefined>"
Truthy(tok) == tok # "" /\ tok # Undefined

---------------------------------------------------------------------------
(* CSV files *)

Absent == [exists |-> FALSE, readable |-> FALSE, lines |-> <<>>]
Unreadable == [exists |-> TRUE, readable |-> FALSE, lines |-> <<>>]
Content(ls) == [exists |-> TRUE, readable |-> TRUE, lines |-> ls]

\* team_availability: franchise_id,team_number,team_size,drivers_count,avg_avail_*
TeamLines ==
    { [franchiseId |-> "372", teamNumber |-> "3", teamSize |-> "2", driversCount |-> "1",
       avgAvailMon |-> "1", avgAvailTue |-> "1", avgAvailWed |-> "1", avgAvailThu |-> "1",
       avgAvailFri |-> "1", avgAvailSat |-> "0", avgAvailSun |-> "0",
       avgTotalAvailDays |-> "5"] }

\* schedule_with_travel_times_new: day_name,team_number,start_time,end_time,
\* service_duration_minutes,customer_address,customer_city,travel_time_minutes,CustomerId
OptimizedLines ==
    { [dayName |-> "Tuesday", teamNumber |-> "3", startTime |-> "09:00", endTime |-> "09:20",
       serviceDurationMinutes |-> "20", address |-> "1 Main St", city |-> "Springfield",
       travelTime |-> "null", customerId |-> "101"],
      [dayName |-> "Tuesday", teamNumber |-> "3", startTime |-> "09:35", endTime |-> "09:50",
       serviceDurationMinutes |-> "15", address |-> "2 Oak Ave", city |-> "Springfield",
       travelTime |-> "15", customerId |-> "102"] }

\* original_with_travel_times_new: CustomerId (0), TeamNumber (4), day_name (30),
\* travel_time_minutes (31)
OriginalLines ==
    { [customerId |-> "102", teamNumber |-> "3", dayName |-> "Tuesday", travelTime |-> "55"] }

Files ==
    [team : {Absent, Unreadable} \cup {Content(ls) : ls \in SeqsUpTo(TeamLines, MaxRows)},
     optimized : {Absent, Unreadable}
                 \cup {Content(ls) : ls \in SeqsUpTo(OptimizedLines, MaxRows)},
     original : {Absent, Unreadable}
                \cup {Content(ls) : ls \in SeqsUpTo(OriginalLines, MaxRows)}]


---------------------------------------------------------------------------
(* MemStorage (src/server/storage.ts).  The Map is keyed by a fresh
   randomUUID() per record, so set() always adds an entry and iteration is in
   insertion order: a store is the sequence of its records' data. *)

createTeamAvailability(store, data) == Append(store, data)
createOptimizedSchedule(store, data) == Append(store, data)
clearTeamAvailability == <<>>
clearOptimizedSchedule == <<>>

---------------------------------------------------------------------------
(* POST /api/load-csv-data (src/server/routes.ts) *)

\* One team_availability row as the handler parses it.
TeamRecord(line) ==
    [franchiseId |-> parseInt(line.franchiseId),
     teamNumber |-> parseInt(line.teamNumber),
     teamSize |-> parseInt(line.teamSize),
     driversCount |-> parseInt(line.driversCount),
     avgAvailMon |-> parseFloat(line.avgAvailMon),
     avgAvailTue |-> parseFloat(line.avgAvailTue),
     avgAvailWed |-> parseFloat(line.avgAvailWed),
     avgAvailThu |-> parseFloat(line.avgAvailThu),
     avgAvailFri |-> parseFloat(line.avgAvailFri),
     avgAvailSat |-> parseFloat(line.avgAvailSat),
     avgAvailSun |-> parseFloat(line.avgAvailSun),
     avgTotalAvailDays |-> parseFloat(line.avgTotalAvailDays)]

\* One optimized-schedule row as the handler parses it.
ScheduleRecord(line) ==
    [dayName |-> line.dayName,
     customerId |-> parseInt(line.customerId),
     teamNumber |-> parseInt(line.teamNumber),
     startTime |-> line.startTime,
     endTime |-> line.endTime,
     serviceDurationMinutes |-> parseInt(line.serviceDurationMinutes),
     address |-> line.address,
     city |-> line.city,
     date_shift |-> 0]

\* The travel_time_minutes cells the handler keeps (columns[31] / columns[7]).
UsableTravelTime(line) ==
    /\ Truthy(line.travelTime)
    /\ line.travelTime # "null"
    /\ ~isNaN(parseFloat(line.travelTime))

TravelTimesOf(file) ==
    IF file.exists
    THEN MapSeq(SelectSeq(file.lines, UsableTravelTime), LAMBDA l : parseFloat(l.travelTime).n)
    ELSE <<>>

\* The object the handler assigns to the global: every field is a literal.
AnalyticsSnapshot ==
    [defined |-> TRUE,
     originalTotalTravelTime |-> 4927,
     optimizedTotalTravelTime |-> 2578,
     originalTravelTimes |-> <<2239>>,
     optimizedTravelTimes |-> <<697>>,
     dailySlotCounts |->
        [Mon |-> [optimizedSlots |-> 37, originalSlots |-> 35],
         Tue |-> [optimizedSlots |-> 36, originalSlots |-> 40],
         Wed |-> [optimizedSlots |-> 36, originalSlots |-> 35],
         Thu |-> [optimizedSlots |-> 37, originalSlots |-> 38],
         Fri |-> [optimizedSlots |-> 37, originalSlots |-> 35],
         Sat |-> [optimizedSlots |-> 0, originalSlots |-> 0],
         Sun |-> [optimizedSlots |-> 0, originalSlots |-> 0]],
     timeShiftData |->
        << [timeShift |-> -4, customerCount |-> 8],
           [timeShift |-> -3, customerCount |-> 8],
           [timeShift |-> -2, customerCount |-> 24],
           [timeShift |-> -1, customerCount |-> 28],
           [timeShift |-> 0, customerCount |-> 42],
           [timeShift |-> 1, customerCount |-> 34],
           [timeShift |-> 2, customerCount |-> 22],
           [timeShift |-> 3, customerCount |-> 9],
           [timeShift |-> 4, customerCount |-> 8] >>,
     exactMetrics |->
        [originalAverage |-> 2239, optimizedAverage |-> 697,
         originalMedian |-> 2000, optimizedMedian |-> 400,
         totalOriginalMinutes |-> 295600, totalOptimizedMinutes |-> 154700,
         totalOriginalHours |-> 4927, totalOptimizedHours |-> 2578,
         improvementPercentage |-> 4770]]

\* The global before any assignment.
UndefinedAnalytics == [defined |-> FALSE]

NoResponse == [route |-> "none", status |-> 0, message |-> "", params |-> <<>>, body |-> <<>>]

LoadSucceeded ==
    [route |-> "load-csv-data", status |-> 200, message |-> "CSV data loaded successfully",
     params |-> <<>>, body |-> <<>>]

LoadFailed ==
    [route |-> "load-csv-data", status |-> 500, message |-> "Failed to load CSV data",
     params |-> <<>>, body |-> <<>>]

\* What a reader can see of the server at one instant.
Observed ==
    [teamAvailability |-> teamAvailability,
     optimizedSchedule |-> optimizedSchedule,
     travelTimeAnalytics |-> travelTimeAnalytics]

\* Mutant: a catch block that also drops the installed snapshot.
LoadThrowsResetting(ta, os) ==
    /\ teamAvailability' = ta
    /\ optimizedSchedule' = os
    /\ travelTimeAnalytics' = UndefinedAnalytics
    /\ resp' = LoadFailed
    /\ loadPc' = "idle"
    /\ pending' = <<>>
    /\ servedLoaded' = everLoaded
    /\ UNCHANGED everLoaded

\* catch (error): the stores keep whatever the try block did to them.
LoadThrows(ta, os) ==
    /\ teamAvailability' = ta
    /\ optimizedSchedule' = os
    /\ resp' = LoadFailed
    /\ loadPc' = "idle"
    /\ pending' = <<>>
    /\ servedLoaded' = everLoaded
    /\ UNCHANGED <<travelTimeAnalytics, everLoaded>>

\* Lines 145-277: travel-time columns, fallback distributions, the literal
\* snapshot and the success response; no await, so one step.  f is the
\* directory content the handler's existsSync / readFileSync calls see.
AnalyticsSection(f, ta, os) ==
    IF (f.original.exists /\ ~f.original.readable)
       \/ (f.optimized.exists /\ ~f.optimized.readable)
    THEN LoadThrows(ta, os)
    ELSE /\ teamAvailability' = ta
         /\ optimizedSchedule' = os
         /\ travelTimeAnalytics' = AnalyticsSnapshot
         /\ resp' = LoadSucceeded
         /\ loadPc' = "idle"
         /\ pending' = <<>>
         /\ servedLoaded' = everLoaded
         /\ everLoaded' = TRUE

\* Lines 107-143: clearOptimizedSchedule() has run when bulkCreate first awaits.
ScheduleSection(f, ta) ==
    IF f.optimized.exists
    THEN IF ~f.optimized.readable
         THEN LoadThrows(ta, optimizedSchedule)
         ELSE /\ teamAvailability' = ta
              /\ optimizedSchedule' = clearOptimizedSchedule
              /\ pending' = MapSeq(f.optimized.lines, ScheduleRecord)
              /\ loadPc' = "schedule"
              /\ UNCHANGED <<travelTimeAnalytics, resp, everLoaded, servedLoaded>>
    ELSE AnalyticsSection(f, ta, optimizedSchedule)

\* Lines 72-105: the handler up to its first await.
TeamSection(f) ==
    IF f.team.exists
    THEN IF ~f.team.readable
         THEN LoadThrows(teamAvailability, optimizedSchedule)
         ELSE /\ teamAvailability' = clearTeamAvailability
              /\ pending' = MapSeq(f.team.lines, TeamRecord)
              /\ loadPc' = "team"
              /\ UNCHANGED <<optimizedSchedule, travelTimeAnalytics, resp,
                             everLoaded, servedLoaded>>
    ELSE ScheduleSection(f, teamAvailability)

\* POST /api/load-csv-data arrives.
LoadStart ==
    /\ loadPc = "idle"
    /\ pre' = Observed
    /\ UNCHANGED <<files, calcVars>>
    /\ TeamSection(files)

\* The data set under attached_assets is replaced by ds and the load is called.
ReloadWith(ds) ==
    /\ loadPc = "idle"
    /\ ds # files
    /\ files' = ds
    /\ pre' = Observed
    /\ UNCHANGED calcVars
    /\ TeamSection(ds)

\* bulkCreateTeamAvailability resumed after an await: insert the next item, or
\* return to the handler, which runs on to its next await.
LoadTeamStep ==
    /\ loadPc = "team"
    /\ UNCHANGED <<files, pre, calcVars>>
    /\ IF pending # <<>>
       THEN /\ teamAvailability' = createTeamAvailability(teamAvailability, Head(pending))
            /\ pending' = Tail(pending)
            /\ UNCHANGED <<optimizedSchedule, travelTimeAnalytics, resp, loadPc,
                           everLoaded, servedLoaded>>
       ELSE ScheduleSection(files, teamAvailability)

\* bulkCreateOptimizedSchedule resumed after an await.
LoadScheduleStep ==
    /\ loadPc = "schedule"
    /\ UNCHANGED <<files, pre, calcVars>>
    /\ IF pending # <<>>
       THEN /\ optimizedSchedule' = createOptimizedSchedule(optimizedSchedule, Head(pending))
            /\ pending' = Tail(pending)
            /\ UNCHANGED <<teamAvailability, travelTimeAnalytics, resp, loadPc,
                           everLoaded, servedLoaded>>
       ELSE AnalyticsSection(files, teamAvailability, optimizedSchedule)

---------------------------------------------------------------------------
(* Read routes of src/server/routes.ts *)

NotLoadedMessage == "Analytics data not loaded. Please call /api/load-csv-data first."
InvalidParameterMessage == "Invalid metric or view parameter"

\* x || d for numbers: d when x is 0 or NaN.
OrElse(x, d) == IF x = 0 THEN d ELSE x

\* The JSON object of GET /api/dashboard-stats.
DashboardBody(analytics) ==
    LET exactMetrics == analytics.exactMetrics
    IN [totalCustomers |-> 183,
        totalTravelTimeSaved |->
            exactMetrics.totalOriginalHours - exactMetrics.totalOptimizedHours,
        totalTravelTimeOriginal |-> OrElse(exactMetrics.totalOriginalHours, 4927),
        totalTravelTimeOptimized |-> OrElse(exactMetrics.totalOptimizedHours, 2578),
        improvementPercentage |-> OrElse(exactMetrics.improvementPercentage, 4770),
        averageTravelTimeOriginal |-> OrElse(exactMetrics.originalAverage, 2239),
        averageTravelTimeOptimized |-> OrElse(exactMetrics.optimizedAverage, 697),
        medianTravelTimeOriginal |-> OrElse(exactMetrics.originalMedian, 2000),
        medianTravelTimeOptimized |-> OrElse(exactMetrics.optimizedMedian, 400),
        dailySlotCounts |-> analytics.dailySlotCounts,
        timeShiftData |-> analytics.timeShiftData]

\* Mutant: the handler without its not-loaded guard, answering from defaults.
DashboardStatsUnguarded(analytics) ==
    [route |-> "dashboard-stats", status |-> 200, message |-> "", params |-> <<>>,
     body |-> DashboardBody(IF analytics.defined THEN analytics ELSE AnalyticsSnapshot)]

\* GET /api/dashboard-stats
DashboardStatsResponse(analytics) ==
    IF ~analytics.defined
    THEN [route |-> "dashboard-stats", status |-> 400, message |-> NotLoadedMessage,
          params |-> <<>>, body |-> <<>>]
    ELSE [route |-> "dashboard-stats", status |-> 200, message |-> "", params |-> <<>>,
          body |-> DashboardBody(analytics)]

Row(name, original, optimized) ==
    [name |-> name, original |-> original, optimized |-> optimized]

\* The literal tables of the handler; hours and minutes in hundredths.
DayTotal ==
    << Row("Mon", 987, 468), Row("Tue", 1392, 597), Row("Wed", 807, 630),
       Row("Thu", 942, 317), Row("Fri", 800, 567) >>

DayAverage ==
    << Row("Mon", 2277, 639), Row("Tue", 2879, 796), Row("Wed", 1936, 859),
       Row("Thu", 2018, 432), Row("Fri", 2000, 756) >>

DayMedian ==
    << Row("Mon", 2200, 500), Row("Tue", 2700, 100), Row("Wed", 2000, 500),
       Row("Thu", 2000, 400), Row("Fri", 2000, 500) >>

TeamTotal ==
    << Row("Team 1", 0, 217), Row("Team 2", 387, 173), Row("Team 3", 412, 273),
       Row("Team 4", 630, 220), Row("Team 5", 427, 308), Row("Team 6", 398, 117),
       Row("Team 7", 552, 230), Row("Team 8", 477, 78), Row("Team 9", 642, 390),
       Row("Team 10", 365, 340), Row("Team 11", 638, 235) >>

TeamAverage ==
    << Row("Team 1", 0, 371), Row("Team 2", 2320, 578), Row("Team 3", 2058, 469),
       Row("Team 4", 2224, 565), Row("Team 5", 2327, 925), Row("Team 6", 1938, 583),
       Row("Team 7", 2207, 511), Row("Team 8", 2043, 313), Row("Team 9", 2567, 1170),
       Row("Team 10", 2190, 1569), Row("Team 11", 2553, 3525) >>

TeamMedian ==
    << Row("Team 2", 2000, 550), Row("Team 3", 2000, 500), Row("Team 4", 2000, 500),
       Row("Team 5", 2000, 300), Row("Team 6", 2000, 350), Row("Team 7", 2000, 400),
       Row("Team 8", 2000, 300), Row("Team 9", 2000, 550), Row("Team 10", 2000, 300),
       Row("Team 11", 2000, 900) >>

\* Mutant: an unknown metric silently answered with the total table.
ChartDataDefaulting(metric, view) ==
    IF view = "day"
    THEN IF metric = "average" THEN DayAverage
         ELSE IF metric = "median" THEN DayMedian ELSE DayTotal
    ELSE IF view = "team"
    THEN IF metric = "average" THEN TeamAverage
         ELSE IF metric = "median" THEN TeamMedian ELSE TeamTotal
    ELSE <<>>

\* chartData as the if / else-if chain of the handler fills it.
ChartData(metric, view) ==
    IF view = "day"
    THEN IF metric = "total" THEN DayTotal
         ELSE IF metric = "average" THEN DayAverage
         ELSE IF metric = "median" THEN DayMedian
         ELSE <<>>
    ELSE IF view = "team"
    THEN IF metric = "total" THEN TeamTotal
         ELSE IF metric = "average" THEN TeamAverage
         ELSE IF metric = "median" THEN TeamMedian
         ELSE <<>>
    ELSE <<>>

\* Mutant: the parameter check moved in front of the not-loaded check.
TravelTimeAnalysisParametersFirst(analytics, metric, view) ==
    LET chartData == ChartData(metric, view)
    IN IF Len(chartData) = 0
       THEN [route |-> "travel-time-analysis", status |-> 400,
             message |-> InvalidParameterMessage,
             params |-> <<metric, view>>, body |-> <<>>]
       ELSE IF ~analytics.defined
       THEN [route |-> "travel-time-analysis", status |-> 400, message |-> NotLoadedMessage,
             params |-> <<metric, view>>, body |-> <<>>]
       ELSE [route |-> "travel-time-analysis", status |-> 200, message |-> "",
             params |-> <<metric, view>>, body |-> chartData]

\* GET /api/travel-time-analysis/:metric/:view
TravelTimeAnalysisResponse(analytics, metric, view) ==
    IF ~analytics.defined
    THEN [route |-> "travel-time-analysis", status |-> 400, message |-> NotLoadedMessage,
          params |-> <<metric, view>>, body |-> <<>>]
    ELSE LET chartData == ChartData(metric, view)
         IN IF Len(chartData) = 0
            THEN [route |-> "travel-time-analysis", status |-> 400,
                  message |-> InvalidParameterMessage,
                  params |-> <<metric, view>>, body |-> <<>>]
            ELSE [route |-> "travel-time-analysis", status |-> 200, message |-> "",
                  params |-> <<metric, view>>, body |-> chartData]

\* Path parameters a client may send.
MetricParams == {"total", "average", "median", "bogus", "Total"}
ViewParams == {"day", "team", "week"}

\* Mutant: a handler that consumes the snapshot it answers from.
DashboardStatsConsuming ==
    /\ resp' = DashboardStatsResponse(travelTimeAnalytics)
    /\ servedLoaded' = everLoaded
    /\ travelTimeAnalytics' = UndefinedAnalytics
    /\ UNCHANGED <<files, teamAvailability, optimizedSchedule,
                   loadPc, pending, pre, everLoaded, calcVars>>

DashboardStats ==
    /\ resp' = DashboardStatsResponse(travelTimeAnalytics)
    /\ servedLoaded' = everLoaded
    /\ UNCHANGED <<files, teamAvailability, optimizedSchedule, travelTimeAnalytics,
                   loadPc, pending, pre, everLoaded, calcVars>>

TravelTimeAnalysis(metric, view) ==
    /\ resp' = TravelTimeAnalysisResponse(travelTimeAnalytics, metric, view)
    /\ servedLoaded' = everLoaded
    /\ UNCHANGED <<files, teamAvailability, optimizedSchedule, travelTimeAnalytics,
                   loadPc, pending, pre, everLoaded, calcVars>>

\* GET /api/team-availability
GetTeamAvailability ==
    /\ resp' = [route |-> "team-availability", status |-> 200, message |-> "",
                params |-> <<>>, body |-> teamAvailability]
    /\ servedLoaded' = everLoaded
    /\ UNCHANGED <<files, teamAvailability, optimizedSchedule, travelTimeAnalytics,
                   loadPc, pending, pre, everLoaded, calcVars>>

\* GET /api/optimized-schedule
GetOptimizedSchedule ==
    /\ resp' = [route |-> "optimized-schedule", status |-> 200, message |-> "",
                params |-> <<>>, body |-> optimizedSchedule]
    /\ servedLoaded' = everLoaded
    /\ UNCHANGED <<files, teamAvailability, optimizedSchedule, travelTimeAnalytics,
                   loadPc, pending, pre, everLoaded, calcVars>>

---------------------------------------------------------------------------
(* The server with one data set on disk, and with the data set replaced
   between loads *)

ServerInit ==
    /\ files \in Files
    /\ teamAvailability = <<>>
    /\ optimizedSchedule = <<>>
    /\ travelTimeAnalytics = UndefinedAnalytics
    /\ loadPc = "idle"
    /\ pending = <<>>
    /\ pre = [teamAvailability |-> <<>>, optimizedSchedule |-> <<>>,
              travelTimeAnalytics |-> UndefinedAnalytics]
    /\ resp = NoResponse
    /\ everLoaded = FALSE
    /\ servedLoaded = FALSE

NoOutput == [op |-> "none", value |-> 0]

CalcIdle == input = <<>> /\ output = NoOutput

Init == ServerInit /\ CalcIdle

Next ==
    \/ LoadStart
    \/ LoadTeamStep
    \/ LoadScheduleStep
    \/ DashboardStats
    \/ \E metric \in MetricParams, view \in ViewParams : TravelTimeAnalysis(metric, view)
    \/ GetTeamAvailability
    \/ GetOptimizedSchedule

Spec == Init /\ [][Next]_vars

ReloadNext ==
    \/ LoadStart
    \/ \E ds \in Files : ReloadWith(ds)
    \/ LoadTeamStep
    \/ LoadScheduleStep

SpecReload == Init /\ [][ReloadNext]_vars

\* The data sets in which one file of f has become unreadable.
Outages(f) ==
    { [f EXCEPT !.team = Unreadable], [f EXCEPT !.optimized = Unreadable],
      [f EXCEPT !.original = Unreadable] }

\* Loads, files going bad between loads, and the two queries with valid
\* parameters.
RecoverNext ==
    \/ LoadStart
    \/ \E ds \in Outages(files) : ReloadWith(ds)
    \/ LoadTeamStep
    \/ LoadScheduleStep
    \/ DashboardStats
    \/ \E metric \in {"total", "average", "median"}, view \in {"day", "team"} :
          TravelTimeAnalysis(metric, view)

SpecRecover == Init /\ [][RecoverNext]_vars

\* POST /api/optimized-schedule: the request bodies, one that satisfies
\* insertOptimizedScheduleSchema and one without its required fields.
ValidBody ==
    [dayName |-> "Monday", customerId |-> 201, teamNumber |-> 4, startTime |-> "10:00",
     endTime |-> "10:30", serviceDurationMinutes |-> 30, address |-> "3 Elm Rd",
     city |-> "Springfield"]

InvalidBody == [dayName |-> "Monday"]

RequestBodies == {ValidBody, InvalidBody}

\* insertOptimizedScheduleSchema.parse succeeds
SchemaAccepts(body) ==
    DOMAIN body = {"dayName", "customerId", "teamNumber", "startTime", "endTime",
                   "serviceDurationMinutes", "address", "city"}

\* The store is kept below MaxStored records to bound the model.
PostOptimizedSchedule(body) ==
    /\ Len(optimizedSchedule) < MaxStored
    /\ IF SchemaAccepts(body)
       THEN /\ optimizedSchedule' = createOptimizedSchedule(optimizedSchedule, body)
            /\ resp' = [route |-> "post-optimized-schedule", status |-> 200,
                        message |-> "", params |-> <<>>, body |-> <<body>>]
       ELSE /\ optimizedSchedule' = optimizedSchedule
            /\ resp' = [route |-> "post-optimized-schedule", status |-> 400,
                        message |-> "Invalid data", params |-> <<>>, body |-> <<>>]
    /\ servedLoaded' = everLoaded
    /\ UNCHANGED <<files, teamAvailability, travelTimeAnalytics, loadPc, pending, pre,
                   everLoaded, calcVars>>

StoreNext ==
    \/ LoadStart
    \/ LoadTeamStep
    \/ LoadScheduleStep
    \/ \E body \in RequestBodies : PostOptimizedSchedule(body)

SpecStore == Init /\ [][StoreNext]_vars


---------------------------------------------------------------------------
(* Medians of src/server/routes_backup.ts.  A sample is a list of travel
   times in minutes; a result is in hundredths of a minute. *)

\* [...xs].sort((a, b) => a - b)
RECURSIVE SortAscending(_)
SortAscending(xs) ==
    IF xs = <<>> THEN <<>>
    ELSE LET sorted == SortAscending(SubSeq(xs, 1, Len(xs) - 1))
             x == xs[Len(xs)]
             k == Cardinality({i \in 1..Len(sorted) : sorted[i] - x <= 0})
         IN SubSeq(sorted, 1, k) \o <<x>> \o SubSeq(sorted, k + 1, Len(sorted))

\* Mutant: the element below the middle, sorted[Math.floor((n - 1) / 2)].
DashboardMedianLower(travelTimes) ==
    LET sorted == SortAscending(travelTimes)
    IN IF Len(sorted) > 0 THEN 100 * sorted[((Len(sorted) - 1) \div 2) + 1] ELSE 0

\* dashboard-stats: sorted[Math.floor(sorted.length / 2)], 0 for no sample.
DashboardMedian(travelTimes) ==
    LET sorted == SortAscending(travelTimes)
    IN IF Len(sorted) > 0 THEN 100 * sorted[(Len(sorted) \div 2) + 1] ELSE 0

\* travel-time-analysis, day and team view: the middle element, or the mean
\* of the two middle elements, then Math.round(v * 100) / 100.
AnalysisMedian(travelTimes) ==
    LET sorted == SortAscending(travelTimes)
        n == Len(sorted)
    IN IF n > 0
       THEN IF n % 2 = 0
            THEN (100 * (sorted[n \div 2] + sorted[(n \div 2) + 1])) \div 2
            ELSE 100 * sorted[(n \div 2) + 1]
       ELSE 0

BackupDashboardStats ==
    /\ output' = [op |-> "dashboard-stats", value |-> DashboardMedian(input)]
    /\ UNCHANGED <<input, serverVars>>

BackupAnalysisByDay ==
    /\ output' = [op |-> "travel-time-analysis/median/day", value |-> AnalysisMedian(input)]
    /\ UNCHANGED <<input, serverVars>>

BackupAnalysisByTeam ==
    /\ output' = [op |-> "travel-time-analysis/median/team", value |-> AnalysisMedian(input)]
    /\ UNCHANGED <<input, serverVars>>

\* The server at rest; the pure computations below do not touch it.
ServerIdle ==
    /\ files = [team |-> Absent, optimized |-> Absent, original |-> Absent]
    /\ teamAvailability = <<>>
    /\ optimizedSchedule = <<>>
    /\ travelTimeAnalytics = UndefinedAnalytics
    /\ loadPc = "idle"
    /\ pending = <<>>
    /\ pre = [teamAvailability |-> <<>>, optimizedSchedule |-> <<>>,
              travelTimeAnalytics |-> UndefinedAnalytics]
    /\ resp = NoResponse
    /\ everLoaded = FALSE
    /\ servedLoaded = FALSE

MedianInit ==
    /\ ServerIdle
    /\ input \in SeqsUpTo(1..MaxSampleValue, MaxSamples)
    /\ output = NoOutput

MedianNext == BackupDashboardStats \/ BackupAnalysisByDay \/ BackupAnalysisByTeam

SpecMedian == MedianInit /\ [][MedianNext]_vars

---------------------------------------------------------------------------
(* Improvement percentages.  The operands are whole numbers; a quotient is a
   JavaScript number: a reduced fraction, NaN, Infinity or -Infinity. *)

Infinity == [k |-> "Infinity", n |-> 0, d |-> 1]
NegInfinity == [k |-> "-Infinity", n |-> 0, d |-> 1]

Abs(x) == IF x < 0 THEN 0 - x ELSE x

RECURSIVE Gcd(_, _)
Gcd(a, b) == IF b = 0 THEN a ELSE Gcd(b, a % b)

\* The number n / d for d # 0, in lowest terms with a positive denominator.
Ratio(n, d) ==
    LET g == Gcd(Abs(n), Abs(d))
        sign == IF d < 0 THEN 0 - 1 ELSE 1
    IN [k |-> "num", n |-> (sign * n) \div g, d |-> Abs(d) \div g]

\* a / b in IEEE arithmetic.
Divide(a, b) ==
    IF b # 0 THEN Ratio(a, b)
    ELSE IF a = 0 THEN NaN
    ELSE IF a > 0 THEN Infinity
    ELSE NegInfinity

\* x * 100
Times100(x) == IF x.k = "num" THEN Ratio(100 * x.n, x.d) ELSE x

\* num.toFixed(2): two decimals, or the name of a non-finite value.
formatNumber(num) ==
    IF num.k = "num"
    THEN LET h == (2 * 100 * Abs(num.n) + num.d) \div (2 * num.d)
         IN [k |-> "num", n |-> IF num.n < 0 THEN 0 - h ELSE h, d |-> 100]
    ELSE num

\* dashboard-stats of routes_backup.ts: guarded by originalTotalTravelTime > 0.
improvement(originalTotalTravelTime, optimizedTotalTravelTime) ==
    LET timeSaved == originalTotalTravelTime - optimizedTotalTravelTime
    IN IF originalTotalTravelTime > 0
       THEN Times100(Divide(timeSaved, originalTotalTravelTime))
       ELSE Num(0)

OptimizedTravelTimeOf(day) == day.optimizedTravelTime
OriginalTravelTimeOf(day) == day.originalTravelTime
CustomerCountOf(day) == day.customerCount

calculateTravelTimeSavings(dailyStats) ==
    LET totalOptimized == SumSeq(MapSeq(dailyStats, OptimizedTravelTimeOf))
        totalOriginal == SumSeq(MapSeq(dailyStats, OriginalTravelTimeOf))
        totalCustomers == SumSeq(MapSeq(dailyStats, CustomerCountOf))
        totalSaved == totalOriginal - totalOptimized
    IN [totalSaved |-> totalSaved,
        percentageSaved |-> Times100(Divide(totalSaved, totalOriginal)),
        avgPerCustomer |-> Divide(totalSaved, totalCustomers)]

\* The percentage the statistics tab renders next to a pair of values.
StatisticsTabImprovement(original, optimized) ==
    formatNumber(Times100(Divide(original - optimized, original)))

DailyStats ==
    [optimizedTravelTime : 0..MaxMinutes, originalTravelTime : 0..MaxMinutes,
     customerCount : 0..MaxCustomers]

ImprovementInputs ==
    [kind : {"analytics"}, originalTotalTravelTime : 0..MaxMinutes,
     optimizedTotalTravelTime : 0..MaxMinutes]
    \cup
    [kind : {"stats"},
     averageTravelTimeOriginal : 0..MaxMinutes, averageTravelTimeOptimized : 0..MaxMinutes,
     medianTravelTimeOriginal : 0..MaxMinutes, medianTravelTimeOptimized : 0..MaxMinutes]
    \cup
    {[kind |-> "dailyStats", days |-> ds] : ds \in SeqsUpTo(DailyStats, MaxDays)}

BackupDashboardImprovement ==
    /\ input.kind = "analytics"
    /\ output' = [op |-> "dashboard-stats/improvement",
                  value |-> improvement(input.originalTotalTravelTime,
                                        input.optimizedTotalTravelTime)]
    /\ UNCHANGED <<input, serverVars>>

TravelTimeSavings ==
    /\ input.kind = "dailyStats"
    /\ output' = [op |-> "calculateTravelTimeSavings",
                  value |-> calculateTravelTimeSavings(input.days).percentageSaved]
    /\ UNCHANGED <<input, serverVars>>

StatisticsTabAverage ==
    /\ input.kind = "stats"
    /\ output' = [op |-> "statistics-tab/average",
                  value |-> StatisticsTabImprovement(input.averageTravelTimeOriginal,
                                                     input.averageTravelTimeOptimized)]
    /\ UNCHANGED <<input, serverVars>>

StatisticsTabMedian ==
    /\ input.kind = "stats"
    /\ output' = [op |-> "statistics-tab/median",
                  value |-> StatisticsTabImprovement(input.medianTravelTimeOriginal,
                                                     input.medianTravelTimeOptimized)]
    /\ UNCHANGED <<input, serverVars>>

ImprovementInit ==
    /\ ServerIdle
    /\ input \in ImprovementInputs
    /\ output = NoOutput

ImprovementNext ==
    \/ BackupDashboardImprovement
    \/ TravelTimeSavings
    \/ StatisticsTabAverage
    \/ StatisticsTabMedian

SpecImprovement == ImprovementInit /\ [][ImprovementNext]_vars

---------------------------------------------------------------------------
(* Travel segments of routes_backup.ts: the gaps between consecutive visits of
   one team on one day.  A visit is a parsed CSV row; a clock time "HH:MM" is
   the pair <<HH, MM>>. *)

DayNames == {"Monday", "Tuesday"}
TeamNumbers == {"3", "4"}

\* The visit intervals, each with its customer: two that start together, one
\* that overlaps both, and one that starts exactly when the overlapping one
\* ends.
Intervals ==
    { [customerId |-> "102", startTime |-> <<9, 0>>, endTime |-> <<9, 20>>],
      [customerId |-> "101", startTime |-> <<9, 0>>, endTime |-> <<9, 30>>],
      [customerId |-> "201", startTime |-> <<9, 10>>, endTime |-> <<9, 40>>],
      [customerId |-> "372", startTime |-> <<9, 40>>, endTime |-> <<9, 50>>] }

Visits ==
    { [dayName |-> d, customerId |-> iv.customerId, teamNumber |-> t,
       startTime |-> iv.startTime, endTime |-> iv.endTime] :
        d \in DayNames, t \in TeamNumbers, iv \in Intervals }

toLowerCase == ("Monday" :> "monday") @@ ("Tuesday" :> "tuesday")

dayOrder == <<"monday", "tuesday", "wednesday", "thursday", "friday", "saturday", "sunday">>

\* Array.prototype.indexOf, counted from 0; -1 when absent.
indexOf(arr, x) ==
    IF \E i \in 1..Len(arr) : arr[i] = x
    THEN (CHOOSE i \in 1..Len(arr) : arr[i] = x /\ \A j \in 1..(i - 1) : arr[j] # x) - 1
    ELSE 0 - 1

parseTime(timeStr) == timeStr[1] * 60 + timeStr[2]

RECURSIVE Flatten(_)
Flatten(ss) == IF ss = <<>> THEN <<>> ELSE Head(ss) \o Flatten(Tail(ss))

\* The keys of a Map in insertion order.
RECURSIVE KeysInOrder(_)
KeysInOrder(keys) ==
    IF keys = <<>> THEN <<>>
    ELSE LET front == KeysInOrder(SubSeq(keys, 1, Len(keys) - 1))
             k == keys[Len(keys)]
         IN IF \E i \in 1..Len(front) : front[i] = k THEN front ELSE Append(front, k)

\* --- optimized schedule ---

OptimizedRow(v) ==
    [dayName |-> toLowerCase[v.dayName],
     customerId |-> v.customerId,
     teamNumber |-> parseFloat(v.teamNumber).n,
     startMinutes |-> parseTime(v.startTime),
     endMinutes |-> parseTime(v.endTime)]

OptimizedCompare(a, b) ==
    LET dayDiff == indexOf(dayOrder, a.dayName) - indexOf(dayOrder, b.dayName)
    IN IF dayDiff # 0 THEN dayDiff
       ELSE IF a.teamNumber # b.teamNumber THEN a.teamNumber - b.teamNumber
       ELSE a.startMinutes - b.startMinutes

\* rawData.sort(...): a stable sort.
RECURSIVE OptimizedSort(_)
OptimizedSort(rawData) ==
    IF rawData = <<>> THEN <<>>
    ELSE LET sorted == OptimizedSort(SubSeq(rawData, 1, Len(rawData) - 1))
             x == rawData[Len(rawData)]
             k == Cardinality({i \in 1..Len(sorted) : OptimizedCompare(sorted[i], x) <= 0})
         IN SubSeq(sorted, 1, k) \o <<x>> \o SubSeq(sorted, k + 1, Len(sorted))

\* Mutant: the groups are formed by day only.
OptimizedKeyByDay(item) == <<item.dayName>>

OptimizedKey(item) == <<item.dayName, item.teamNumber>>

OptimizedGroups(sorted) ==
    LET keys == KeysInOrder(MapSeq(sorted, OptimizedKey))
    IN [g \in 1..Len(keys) |-> SelectSeq(sorted, LAMBDA item : OptimizedKey(item) = keys[g])]

NonNegative(segment) == segment.travelTime >= 0

\* Mutant: a negative gap is clamped to 0 instead of dropped.
OptimizedGapsClamped(group) ==
    [i \in 1..(Len(group) - 1) |->
        LET travelTime == group[i + 1].startMinutes - group[i].endMinutes
        IN [dayName |-> group[i + 1].dayName,
            teamNumber |-> group[i + 1].teamNumber,
            travelTime |-> IF travelTime >= 0 THEN travelTime ELSE 0]]

\* for (i = 1; i < group.length; i++) ... if (travelTime >= 0) push
OptimizedGaps(group) ==
    LET gaps == [i \in 1..(Len(group) - 1) |->
                    [dayName |-> group[i + 1].dayName,
                     teamNumber |-> group[i + 1].teamNumber,
                     travelTime |-> group[i + 1].startMinutes - group[i].endMinutes]]
    IN SelectSeq(gaps, NonNegative)

OptimizedSegments(visits) ==
    LET rawData == MapSeq(visits, OptimizedRow)
        groups == OptimizedGroups(OptimizedSort(rawData))
    IN Flatten(MapSeq(groups, OptimizedGaps))

\* --- original schedule ---

MsPerMinute == 1000 * 60
MsPerDay == 24 * 60 * MsPerMinute

\* Days after 2025-07-07, the Monday of the analysed week.
DayOffset == ("Monday" :> 0) @@ ("Tuesday" :> 1)

\* A parsed row: Dates are milliseconds after 2025-07-07T00:00.
OriginalRow(v) ==
    LET cleanDate == DayOffset[v.dayName] * MsPerDay
    IN [cleanDate |-> cleanDate,
        teamNumber |-> parseFloat(v.teamNumber).n,
        timeIn |-> cleanDate + parseTime(v.startTime) * MsPerMinute,
        timeOut |-> cleanDate + parseTime(v.endTime) * MsPerMinute,
        dayName |-> toLowerCase[v.dayName]]

OriginalCompare(a, b) ==
    IF a.cleanDate # b.cleanDate THEN a.cleanDate - b.cleanDate
    ELSE IF a.teamNumber # b.teamNumber THEN a.teamNumber - b.teamNumber
    ELSE a.timeIn - b.timeIn

RECURSIVE OriginalSort(_)
OriginalSort(rawData) ==
    IF rawData = <<>> THEN <<>>
    ELSE LET sorted == OriginalSort(SubSeq(rawData, 1, Len(rawData) - 1))
             x == rawData[Len(rawData)]
             k == Cardinality({i \in 1..Len(sorted) : OriginalCompare(sorted[i], x) <= 0})
         IN SubSeq(sorted, 1, k) \o <<x>> \o SubSeq(sorted, k + 1, Len(sorted))

OriginalKey(item) == <<item.cleanDate, item.teamNumber>>

OriginalGroups(sorted) ==
    LET keys == KeysInOrder(MapSeq(sorted, OriginalKey))
    IN [g \in 1..Len(keys) |-> SelectSeq(sorted, LAMBDA item : OriginalKey(item) = keys[g])]

\* The times are whole minutes, so the division by 1000 * 60 is exact.
OriginalGaps(group) ==
    LET gaps == [i \in 1..(Len(group) - 1) |->
                    [dayName |-> group[i + 1].dayName,
                     teamNumber |-> group[i + 1].teamNumber,
                     travelTime |-> (group[i + 1].timeIn - group[i].timeOut) \div MsPerMinute]]
    IN SelectSeq(gaps, NonNegative)

OriginalSegments(visits) ==
    LET rawData == MapSeq(visits, OriginalRow)
        groups == OriginalGroups(OriginalSort(rawData))
    IN Flatten(MapSeq(groups, OriginalGaps))

BuildOptimizedSegments ==
    /\ output' = [op |-> "optimized-segments", value |-> OptimizedSegments(input)]
    /\ UNCHANGED <<input, serverVars>>

BuildOriginalSegments ==
    /\ output' = [op |-> "original-segments", value |-> OriginalSegments(input)]
    /\ UNCHANGED <<input, serverVars>>

\* The groups the optimized builder takes its gaps from.
GroupOptimizedVisits ==
    /\ output' = [op |-> "optimized-groups",
                  value |-> OptimizedGroups(OptimizedSort(MapSeq(input, OptimizedRow)))]
    /\ UNCHANGED <<input, serverVars>>

SegmentsInit ==
    /\ ServerIdle
    /\ input \in SeqsUpTo(Visits, MaxVisits)
    /\ output = NoOutput

SegmentsNext == BuildOptimizedSegments \/ BuildOriginalSegments \/ GroupOptimizedVisits

SpecSegments == SegmentsInit /\ [][SegmentsNext]_vars

\* dashboard-stats: the samples behind the overall average and median,
\* data.map(d => d.travelTime).filter(t => t > 0)
allTravelTimes(data) ==
    SelectSeq(MapSeq(data, LAMBDA d : d.travelTime), LAMBDA t : t > 0)

DashboardOptimizedSamples ==
    /\ output' = [op |-> "allOptimizedTravelTimes",
                  value |-> allTravelTimes(OptimizedSegments(input))]
    /\ UNCHANGED <<input, serverVars>>

DashboardOriginalSamples ==
    /\ output' = [op |-> "allOriginalTravelTimes",
                  value |-> allTravelTimes(OriginalSegments(input))]
    /\ UNCHANGED <<input, serverVars>>

SamplesNext == DashboardOptimizedSamples \/ DashboardOriginalSamples

SpecSamples == SegmentsInit /\ [][SamplesNext]_vars

---------------------------------------------------------------------------
(* calculateDailyStats of src/client/src/lib/data-processor.ts.  A value of
   Math.random() is a number of tenths in [0, 1). *)

Randoms == {0, 5, 9}

days == <<"monday", "tuesday", "wednesday", "thursday", "friday", "saturday", "sunday">>

ScheduleRows == [dayName : DayNames]

Max(a, b) == IF a >= b THEN a ELSE b

\* The days of the week that have a row; on the other days every product
\* with customerCount = 0 is 0 whatever Math.random() returns.
DaysWithRows(schedule) ==
    {toLowerCase[schedule[i].dayName] : i \in 1..Len(schedule)}

RandomDraws(schedule) ==
    [DaysWithRows(schedule) \X (1..3) -> Randoms]

RandomAt(rnd, day, k) == IF <<day, k>> \in DOMAIN rnd THEN rnd[<<day, k>>] ELSE 0

\* rnd[<<day, k>>] is the k-th Math.random() of the day's iteration.
calculateDailyStats(schedule, rnd) ==
    [d \in 1..Len(days) |->
        LET day == days[d]
            daySchedule == SelectSeq(schedule,
                                     LAMBDA row : toLowerCase[row.dayName] = day)
            customerCount == Len(daySchedule)
        IN [day |-> day,
            optimizedTravelTime |-> (customerCount * (80 + RandomAt(rnd, day, 1) * 5)) \div 10,
            originalTravelTime |-> (customerCount * (150 + RandomAt(rnd, day, 2) * 10)) \div 10,
            optimizedSlots |-> customerCount,
            originalSlots |-> Max(0, customerCount - ((RandomAt(rnd, day, 3) * 5) \div 10)),
            customerCount |-> customerCount]]

CalculateDailyStats ==
    /\ \E rnd \in RandomDraws(input) :
          output' = [op |-> "calculateDailyStats", value |-> calculateDailyStats(input, rnd)]
    /\ UNCHANGED <<input, serverVars>>

DailyStatsInit ==
    /\ ServerIdle
    /\ input \in SeqsUpTo(ScheduleRows, MaxStops)
    /\ output = NoOutput

DailyStatsNext == CalculateDailyStats

SpecDailyStats == DailyStatsInit /\ [][DailyStatsNext]_vars

---------------------------------------------------------------------------
(* Normalisation of optimized-schedule rows: the rows POST /api/load-csv-data
   hands to the schedule store (src/server/routes.ts) and the rows
   parseOptimizedScheduleCSV returns (src/client/src/lib/csv-parser.ts).  A
   line is its cells by column name; a cell past the end of a short line is
   Undefined. *)

WellFormedLine ==
    [dayName |-> "Tuesday", teamNumber |-> "3", startTime |-> "09:35", endTime |-> "09:50",
     serviceDurationMinutes |-> "15", address |-> "2 Oak Ave", city |-> "Springfield",
     travelTime |-> "15", customerId |-> "102"]

\* "Tuesday,3": every cell after the second is missing.
ShortLine ==
    [dayName |-> "Tuesday", teamNumber |-> "3", startTime |-> Undefined,
     endTime |-> Undefined, serviceDurationMinutes |-> Undefined, address |-> Undefined,
     city |-> Undefined, travelTime |-> Undefined, customerId |-> Undefined]

\* An empty line: split(',') gives one empty cell.
BlankLine ==
    [dayName |-> "", teamNumber |-> Undefined, startTime |-> Undefined,
     endTime |-> Undefined, serviceDurationMinutes |-> Undefined, address |-> Undefined,
     city |-> Undefined, travelTime |-> Undefined, customerId |-> Undefined]

NormalizeLines ==
    { WellFormedLine,
      [WellFormedLine EXCEPT !.teamNumber = "null"],
      [WellFormedLine EXCEPT !.customerId = ""],
      [WellFormedLine EXCEPT !.serviceDurationMinutes = "abc"],
      ShortLine,
      BlankLine }

\* line.trim() is truthy
NotBlank(line) == ~(line.dayName = "" /\ line.teamNumber = Undefined)

\* scheduleLines.filter(line => line.trim()).map(...)
scheduleData(scheduleLines) == MapSeq(SelectSeq(scheduleLines, NotBlank), ScheduleRecord)

\* One row as parseOptimizedScheduleCSV pushes it.
ParsedScheduleRow(line) ==
    [dayName |-> line.dayName,
     customerId |-> parseInt(line.customerId),
     teamNumber |-> parseInt(line.teamNumber),
     startTime |-> line.startTime,
     endTime |-> line.endTime,
     serviceDurationMinutes |-> parseInt(line.serviceDurationMinutes),
     address |-> line.address,
     city |-> line.city]

parseOptimizedScheduleCSV(lines) == MapSeq(SelectSeq(lines, NotBlank), ParsedScheduleRow)

NormalizeForStore ==
    /\ output' = [op |-> "scheduleData", value |-> scheduleData(input)]
    /\ UNCHANGED <<input, serverVars>>

ParseOptimizedScheduleCSV ==
    /\ output' = [op |-> "parseOptimizedScheduleCSV",
                  value |-> parseOptimizedScheduleCSV(input)]
    /\ UNCHANGED <<input, serverVars>>

NormalizeInit ==
    /\ ServerIdle
    /\ input \in SeqsUpTo(NormalizeLines, MaxRows)
    /\ output = NoOutput

NormalizeNext == NormalizeForStore \/ ParseOptimizedScheduleCSV

SpecNormalize == NormalizeInit /\ [][NormalizeNext]_vars

---------------------------------------------------------------------------
(* The analytics part of POST /api/load-csv-data in routes_backup.ts, which
   computes the snapshot from the files: travel times, slot counts per day
   and the date-shift distribution. *)

\* original schedule rows: CustomerId (0), TeamNumber (4), day_name (30),
\* travel_time_minutes (31); a short row ends before column 30.
ShortOriginalLine ==
    [customerId |-> "101", teamNumber |-> "3", dayName |-> Undefined, travelTime |-> Undefined]

BackupOriginalLines ==
    { [customerId |-> "102", teamNumber |-> "3", dayName |-> "Tuesday", travelTime |-> "55"],
      [customerId |-> "101", teamNumber |-> "3", dayName |-> "Monday", travelTime |-> "30"],
      ShortOriginalLine }

BackupOptimizedLines == {WellFormedLine, ShortLine}

\* date_shift rows: the cell of column 9.
DateShiftCells == {"0", "1", "-1", "", Undefined}

DayKeys == {"Mon", "Tue", "Wed", "Thu", "Fri", "Sat", "Sun"}

\* dayName.charAt(0).toUpperCase() + dayName.slice(1, 3)
dayKey ==
    ("Monday" :> "Mon") @@ ("Tuesday" :> "Tue") @@ ("" :> "")

\* Calling .charAt on undefined raises a TypeError.
SlotCountThrows(lines) == \E i \in 1..Len(lines) : lines[i].dayName = Undefined

SlotsOf(lines, key) ==
    Len(SelectSeq(lines, LAMBDA line : dayKey[line.dayName] = key))

dailySlotCounts(optimizedLines, originalLines) ==
    [key \in DayKeys |->
        [optimizedSlots |-> SlotsOf(SelectSeq(optimizedLines, NotBlank), key),
         originalSlots |-> SlotsOf(originalLines, key)]]

\* Object.keys(shiftCounts): the non-negative integer keys ascending, then the
\* other keys in insertion order.
ShiftKeys(shifts) ==
    KeysInOrder(SortAscending(SelectSeq(shifts, LAMBDA x : x >= 0)))
        \o KeysInOrder(SelectSeq(shifts, LAMBDA x : x < 0))

\* Mutant: the buckets are left in the order of the keys.
SortByTimeShiftSkipped(buckets) == buckets

\* timeShiftData.sort((a, b) => a.timeShift - b.timeShift)
RECURSIVE SortByTimeShift(_)
SortByTimeShift(buckets) ==
    IF buckets = <<>> THEN <<>>
    ELSE LET sorted == SortByTimeShift(SubSeq(buckets, 1, Len(buckets) - 1))
             x == buckets[Len(buckets)]
             k == Cardinality({i \in 1..Len(sorted) : sorted[i].timeShift - x.timeShift <= 0})
         IN SubSeq(sorted, 1, k) \o <<x>> \o SubSeq(sorted, k + 1, Len(sorted))

\* The distribution of a list of date shifts.
Distribution(keys, shifts) ==
    SortByTimeShift(
        [n \in 1..Len(keys) |->
            [timeShift |-> keys[n],
             customerCount |-> Len(SelectSeq(shifts, LAMBDA x : x = keys[n]))]])

\* parseInt(columns[9]) of every row, without the NaN ones.
ParsedDateShifts(cells) ==
    MapSeq(SelectSeq(cells, LAMBDA c : ~isNaN(parseInt(c))), LAMBDA c : parseInt(c).n)

timeShiftData(cells) ==
    LET shifts == ParsedDateShifts(cells)
    IN Distribution(ShiftKeys(shifts), shifts)

BackupAnalytics(f) ==
    [defined |-> TRUE,
     originalTotalTravelTime |-> Divide(SumSeq(TravelTimesOf(Content(f.original))), 60),
     optimizedTotalTravelTime |->
        Divide(SumSeq(TravelTimesOf(Content(SelectSeq(f.optimized, NotBlank)))), 60),
     originalTravelTimes |-> TravelTimesOf(Content(f.original)),
     optimizedTravelTimes |-> TravelTimesOf(Content(SelectSeq(f.optimized, NotBlank))),
     dailySlotCounts |-> dailySlotCounts(f.optimized, f.original),
     timeShiftData |-> timeShiftData(f.dateShift)]

\* The answer of the handler and the snapshot it leaves behind.
BackupLoadResult(f) ==
    IF SlotCountThrows(SelectSeq(f.optimized, NotBlank)) \/ SlotCountThrows(f.original)
    THEN [status |-> 500, message |-> "Failed to load CSV data",
          travelTimeAnalytics |-> UndefinedAnalytics]
    ELSE [status |-> 200, message |-> "CSV data loaded successfully",
          travelTimeAnalytics |-> BackupAnalytics(f)]

BackupLoadCsvData ==
    /\ output' = [op |-> "backup-load-csv-data", value |-> BackupLoadResult(input)]
    /\ UNCHANGED <<input, serverVars>>

BackupLoadInit ==
    /\ ServerIdle
    /\ input \in [optimized : SeqsUpTo(BackupOptimizedLines, MaxRows),
                  original : SeqsUpTo(BackupOriginalLines, MaxRows),
                  dateShift : SeqsUpTo(DateShiftCells, MaxRows)]
    /\ output = NoOutput

BackupLoadNext == BackupLoadCsvData

SpecBackupLoad == BackupLoadInit /\ [][BackupLoadNext]_vars

---------------------------------------------------------------------------
(* Shift distributions: calculateTimeShifts of data-processor.ts, the
   date-shift processing of the file-computing load, and the fallback of the
   dashboard that reads the stored schedule records.  The date_shift of a
   schedule item is a number, undefined or null. *)

UndefinedValue == [k |-> "undefined", n |-> 0, d |-> 1]
NullValue == [k |-> "null", n |-> 0, d |-> 1]

DateShiftValues == {Num(0), Num(1), Num(0 - 1), UndefinedValue, NullValue}

ScheduleItems == [date_shift : DateShiftValues]

\* dateShift !== undefined && dateShift !== null
HasDateShift(item) == item.date_shift.k \notin {"undefined", "null"}

calculateTimeShifts(schedule) ==
    LET shifts == MapSeq(SelectSeq(schedule, HasDateShift), LAMBDA item : item.date_shift.n)
    IN Distribution(KeysInOrder(shifts), shifts)

\* item.date_shift || 0
DateShiftOrZero(item) ==
    IF item.date_shift.k = "num" /\ item.date_shift.n # 0 THEN item.date_shift.n ELSE 0

\* dashboard-stats without a date-shift file: every stored record is counted.
FallbackTimeShifts(schedule) ==
    LET shifts == MapSeq(schedule, DateShiftOrZero)
    IN Distribution(KeysInOrder(shifts), shifts)

TimeShiftInputs ==
    {[kind |-> "schedule", rows |-> items] : items \in SeqsUpTo(ScheduleItems, MaxItems)}
    \cup
    {[kind |-> "date-shift-csv", rows |-> cells] : cells \in SeqsUpTo(DateShiftCells, MaxItems)}

CalculateTimeShifts ==
    /\ input.kind = "schedule"
    /\ output' = [op |-> "calculateTimeShifts", value |-> calculateTimeShifts(input.rows)]
    /\ UNCHANGED <<input, serverVars>>

ProcessDateShiftCsv ==
    /\ input.kind = "date-shift-csv"
    /\ output' = [op |-> "timeShiftData", value |-> timeShiftData(input.rows)]
    /\ UNCHANGED <<input, serverVars>>

DashboardTimeShiftFallback ==
    /\ input.kind = "schedule"
    /\ output' = [op |-> "dashboard-stats/timeShiftData",
                  value |-> FallbackTimeShifts(input.rows)]
    /\ UNCHANGED <<input, serverVars>>

TimeShiftInit ==
    /\ ServerIdle
    /\ input \in TimeShiftInputs
    /\ output = NoOutput

TimeShiftNext == CalculateTimeShifts \/ ProcessDateShiftCsv \/ DashboardTimeShiftFallback

SpecTimeShifts == TimeShiftInit /\ [][TimeShiftNext]_vars

---------------------------------------------------------------------------
(* GET /api/travel-time-analysis/:metricType/:viewType of routes_backup.ts,
   which computes its table from the two schedule files.  A row is given by
   the cells the handler reads; every row has all its columns.  Values are
   fractions [n, d]; a table holds hundredths. *)

\* day_name, team_number, travel_time_minutes
AnalysisOptimizedLines ==
    { [dayName |-> "Tuesday", teamNumber |-> "3", travelTime |-> "15"],
      [dayName |-> "Tuesday", teamNumber |-> "3", travelTime |-> "30"],
      [dayName |-> "Monday", teamNumber |-> "4", travelTime |-> "null"] }

AnalysisOriginalLines ==
    { [dayName |-> "Tuesday", teamNumber |-> "3", travelTime |-> "55"],
      [dayName |-> "Monday", teamNumber |-> "4", travelTime |-> "20"] }

LastTeam == 16

\* parseFloat(x) || 0
ParseOrZero(tok) == IF isNaN(parseFloat(tok)) THEN 0 ELSE parseFloat(tok).n

TravelTimeOfLine(line) == ParseOrZero(line.travelTime)

\* The samples of a day: dailyStats[dayName] && travelTime > 0
DayTravelTimes(lines, day) ==
    MapSeq(SelectSeq(lines, LAMBDA line : /\ toLowerCase[line.dayName] = day
                                          /\ ParseOrZero(line.travelTime) > 0),
           TravelTimeOfLine)

\* The samples of a team: teamStats[teamNumber] && travelTime > 0
TeamTravelTimes(lines, team) ==
    MapSeq(SelectSeq(lines, LAMBDA line : /\ ParseOrZero(line.teamNumber) = team
                                          /\ ParseOrZero(line.travelTime) > 0),
           TravelTimeOfLine)

\* The chain if total / else if average / else (median).
MetricValue(metricType, travelTimes) ==
    IF metricType = "total" THEN [n |-> SumSeq(travelTimes), d |-> 1]
    ELSE IF metricType = "average"
         THEN IF Len(travelTimes) > 0
              THEN [n |-> SumSeq(travelTimes), d |-> Len(travelTimes)]
              ELSE [n |-> 0, d |-> 1]
    ELSE [n |-> AnalysisMedian(travelTimes), d |-> 100]

\* Math.round(v * 100) / 100, in hundredths
Round100(v) == (200 * v.n + v.d) \div (2 * v.d)

Minus(a, b) == [n |-> a.n * b.d - b.n * a.d, d |-> a.d * b.d]

AnalysisRow(name, originalValue, optimizedValue) ==
    [name |-> name,
     original |-> Round100(originalValue),
     optimized |-> Round100(optimizedValue),
     timeSaved |-> Round100(Minus(originalValue, optimizedValue))]

DayLabels == <<"Mon", "Tue", "Wed", "Thu", "Fri", "Sat", "Sun">>

\* `${i}` for the teams 0..16
TeamLabels ==
    <<"0", "1", "2", "3", "4", "5", "6", "7", "8", "9", "10", "11", "12", "13", "14",
      "15", "16">>

\* if (viewType === 'day') ... else (team view)
analysisData(metricType, viewType, f) ==
    IF viewType = "day"
    THEN [i \in 1..Len(days) |->
            AnalysisRow(DayLabels[i],
                        MetricValue(metricType, DayTravelTimes(f.original, days[i])),
                        MetricValue(metricType, DayTravelTimes(f.optimized, days[i])))]
    ELSE [i \in 1..(LastTeam + 1) |->
            AnalysisRow(TeamLabels[i],
                        MetricValue(metricType, TeamTravelTimes(f.original, i - 1)),
                        MetricValue(metricType, TeamTravelTimes(f.optimized, i - 1)))]

FileAnalysisResponse(metricType, viewType, f) ==
    [status |-> 200, params |-> <<metricType, viewType>>,
     body |-> analysisData(metricType, viewType, f)]

FileTravelTimeAnalysis(metricType, viewType) ==
    /\ output' = [op |-> "file-travel-time-analysis",
                  value |-> FileAnalysisResponse(metricType, viewType, input)]
    /\ UNCHANGED <<input, serverVars>>

FileAnalysisInit ==
    /\ ServerIdle
    /\ input \in [optimized : SeqsUpTo(AnalysisOptimizedLines, MaxRows),
                  original : SeqsUpTo(AnalysisOriginalLines, MaxRows)]
    /\ output = NoOutput

FileAnalysisNext ==
    \E metricType \in MetricParams, viewType \in ViewParams :
        FileTravelTimeAnalysis(metricType, viewType)

SpecFileAnalysis == FileAnalysisInit /\ [][FileAnalysisNext]_vars

---------------------------------------------------------------------------
(* Slot counting by day name in routes_backup.ts: the load derives a key from
   the first three letters of the cell, dashboard-stats looks the lower-cased
   cell up in dayMapping.  A string is the sequence of its characters. *)

LowerLetters ==
    <<"a", "b", "c", "d", "e", "f", "g", "h", "i", "j", "k", "l", "m", "n", "o", "p", "q",
      "r", "s", "t", "u", "v", "w", "x", "y", "z">>

UpperLetters ==
    <<"A", "B", "C", "D", "E", "F", "G", "H", "I", "J", "K", "L", "M", "N", "O", "P", "Q",
      "R", "S", "T", "U", "V", "W", "X", "Y", "Z">>

UpperChar(c) ==
    IF \E i \in 1..Len(LowerLetters) : LowerLetters[i] = c
    THEN UpperLetters[CHOOSE i \in 1..Len(LowerLetters) : LowerLetters[i] = c]
    ELSE c

LowerChar(c) ==
    IF \E i \in 1..Len(UpperLetters) : UpperLetters[i] = c
    THEN LowerLetters[CHOOSE i \in 1..Len(UpperLetters) : UpperLetters[i] = c]
    ELSE c

\* str.toLowerCase()
LowerCased(str) == [i \in 1..Len(str) |-> LowerChar(str[i])]

\* str.slice(from, to), both counted from 0
Slice(str, from, to) ==
    IF from >= Len(str) THEN <<>>
    ELSE SubSeq(str, from + 1, IF to < Len(str) THEN to ELSE Len(str))

\* dayName.charAt(0).toUpperCase() + dayName.slice(1, 3)
DayKeyOf(dayName) == MapSeq(Slice(dayName, 0, 1), UpperChar) \o Slice(dayName, 1, 3)

\* The keys of dailySlotCounts, Mon .. Sun
SlotKeys ==
    << <<"M", "o", "n">>, <<"T", "u", "e">>, <<"W", "e", "d">>, <<"T", "h", "u">>,
       <<"F", "r", "i">>, <<"S", "a", "t">>, <<"S", "u", "n">> >>

\* The keys of dayMapping, monday .. sunday
dayMapping ==
    << <<"m", "o", "n", "d", "a", "y">>, <<"t", "u", "e", "s", "d", "a", "y">>,
       <<"w", "e", "d", "n", "e", "s", "d", "a", "y">>,
       <<"t", "h", "u", "r", "s", "d", "a", "y">>, <<"f", "r", "i", "d", "a", "y">>,
       <<"s", "a", "t", "u", "r", "d", "a", "y">>, <<"s", "u", "n", "d", "a", "y">> >>

\* Tuesday, tuesday, TUESDAY, Tuesnight, Tue, Funday, monday and the empty cell
DayNameCells ==
    { <<"T", "u", "e", "s", "d", "a", "y">>,
      <<"t", "u", "e", "s", "d", "a", "y">>,
      <<"T", "U", "E", "S", "D", "A", "Y">>,
      <<"T", "u", "e", "s", "n", "i", "g", "h", "t">>,
      <<"T", "u", "e">>,
      <<"F", "u", "n", "d", "a", "y">>,
      <<"m", "o", "n", "d", "a", "y">>,
      <<>> }

\* The slots per day (1 = Mon .. 7 = Sun) the load counts.
LoadSlotCounts(cells) ==
    [d \in 1..Len(SlotKeys) |->
        Len(SelectSeq(cells, LAMBDA dayName : DayKeyOf(dayName) = SlotKeys[d]))]

\* The slots per day dashboard-stats counts.
DashboardSlotCounts(cells) ==
    [d \in 1..Len(dayMapping) |->
        Len(SelectSeq(cells, LAMBDA dayName : LowerCased(dayName) = dayMapping[d]))]

CountSlotsInLoad ==
    /\ output' = [op |-> "load-slot-counts", value |-> LoadSlotCounts(input)]
    /\ UNCHANGED <<input, serverVars>>

CountSlotsInDashboard ==
    /\ output' = [op |-> "dashboard-slot-counts", value |-> DashboardSlotCounts(input)]
    /\ UNCHANGED <<input, serverVars>>

SlotCountInit ==
    /\ ServerIdle
    /\ input \in SeqsUpTo(DayNameCells, MaxRows)
    /\ output = NoOutput

SlotCountNext == CountSlotsInLoad \/ CountSlotsInDashboard

SpecSlotCount == SlotCountInit /\ [][SlotCountNext]_vars

---------------------------------------------------------------------------
(* Two calls of MemStorage.bulkCreateOptimizedSchedule in flight at once
   (src/server/storage.ts).  input holds the data sets of the calls A and B,
   output.value the position of each call: not yet called, suspended at an
   await with the items it has still to insert, or returned. *)

Callers == {"A", "B"}

\* The records a caller may pass.
BulkRecords == {ScheduleRecord(line) : line \in OptimizedLines}

NotCalled == [pc |-> "start", rest |-> <<>>]

\* The call runs up to its first await: clearOptimizedSchedule() has emptied
\* the Map when it suspends.
BulkCall(c) ==
    /\ output.value[c].pc = "start"
    /\ optimizedSchedule' = clearOptimizedSchedule
    /\ output' = [output EXCEPT !.value[c] = [pc |-> "await", rest |-> input[c]]]
    /\ UNCHANGED <<files, teamAvailability, travelTimeAnalytics, loadPc, pending, resp,
                   pre, everLoaded, servedLoaded, input>>

\* The call resumes after an await: createOptimizedSchedule(item) for the
\* next item and suspend again, or return when the loop is over.
BulkResume(c) ==
    /\ output.value[c].pc = "await"
    /\ IF output.value[c].rest # <<>>
       THEN /\ optimizedSchedule'
                  = createOptimizedSchedule(optimizedSchedule, Head(output.value[c].rest))
            /\ output' = [output EXCEPT !.value[c].rest = Tail(@)]
       ELSE /\ optimizedSchedule' = optimizedSchedule
            /\ output' = [output EXCEPT !.value[c].pc = "returned"]
    /\ UNCHANGED <<files, teamAvailability, travelTimeAnalytics, loadPc, pending, resp,
                   pre, everLoaded, servedLoaded, input>>

BulkInit ==
    /\ ServerIdle
    /\ input \in [Callers -> SeqsUpTo(BulkRecords, MaxRows)]
    /\ output = [op |-> "bulkCreateOptimizedSchedule", value |-> [c \in Callers |-> NotCalled]]

BulkNext == \E c \in Callers : BulkCall(c) \/ BulkResume(c)

SpecBulk == BulkInit /\ [][BulkNext]_vars

---------------------------------------------------------------------------
(* useGlobalPreloader and batchGeocodeAll (src/unnamed/part_010), one mounted
   instance of the hook.  input holds what the server will answer: the
   customerCount of each Monday team and the number of distinct addresses in
   the team schedules.  output.value is the hook: PRELOAD_COMPLETED.value, the
   addresses in GLOBAL_GEOCODE_CACHE, preloadStatus and the position of the
   effect.  Addresses are numbered 1, 2, ... *)

chunkSize == 3

Hook == output.value

\* useState({isLoading: !PRELOAD_COMPLETED.value, totalAddresses: 0,
\*           cachedAddresses: GLOBAL_GEOCODE_CACHE.size})
Mounted(completed, cache) ==
    [pc |-> "waiting", completed |-> completed, cache |-> cache, uncached |-> <<>>,
     preloadStatus |-> [isLoading |-> ~completed, totalAddresses |-> 0,
                        cachedAddresses |-> Cardinality(cache)]]

PreloaderFrame ==
    UNCHANGED <<files, teamAvailability, optimizedSchedule, travelTimeAnalytics, loadPc,
                pending, resp, pre, everLoaded, servedLoaded, input>>

\* mondayTeams?.teams?.filter(team => team.customerCount > 0) || []
teamsWithData == SelectSeq(input.teams, LAMBDA customerCount : customerCount > 0)

\* addresses.filter(addr => !GLOBAL_GEOCODE_CACHE.has(addr)) for addresses 1..n
uncachedAddresses(n, cache) ==
    LET Uncached(addr) == addr \notin cache
    IN SelectSeq([addr \in 1..n |-> addr], Uncached)

\* The query delivers mondayTeams and the effect runs up to its first await.
TeamsArrive ==
    /\ Hook.pc = "waiting"
    /\ IF Hook.completed
       THEN output' = [output EXCEPT !.value.pc = "returned"]
       ELSE IF Len(teamsWithData) = 0
       THEN output' = [output EXCEPT !.value.completed = TRUE, !.value.pc = "returned"]
       ELSE output' = [output EXCEPT !.value.pc = "fetching"]
    /\ PreloaderFrame

\* Promise.all(teamDataPromises) resolves; a failed fetch gave null, so n of
\* the addresses are collected; then batchGeocodeAll runs up to its first await.
SchedulesArrive ==
    /\ Hook.pc = "fetching"
    /\ \E n \in 0..input.addresses :
          LET uncached == uncachedAddresses(n, Hook.cache)
              status == [isLoading |-> TRUE, totalAddresses |-> n,
                         cachedAddresses |-> Cardinality(Hook.cache)]
          IN IF Len(uncached) = 0
             THEN output' = [output EXCEPT !.value.preloadStatus = status,
                                           !.value.completed = TRUE,
                                           !.value.pc = "geocoded"]
             ELSE output' = [output EXCEPT !.value.preloadStatus = status,
                                           !.value.uncached = uncached,
                                           !.value.pc = "geocoding"]
    /\ PreloaderFrame

\* A team schedule that is not an array makes schedule.forEach throw: the
\* catch block of initializePreloading.
SchedulesMalformed ==
    /\ Hook.pc = "fetching"
    /\ output' = [output EXCEPT !.value.preloadStatus.isLoading = FALSE,
                                !.value.preloadStatus.cachedAddresses
                                    = Cardinality(Hook.cache),
                                !.value.pc = "returned"]
    /\ PreloaderFrame

\* Promise.allSettled of one chunk: the addresses in found were geocoded, the
\* others failed silently.
GeocodeChunk ==
    /\ Hook.pc = "geocoding"
    /\ LET size == IF Len(Hook.uncached) < chunkSize THEN Len(Hook.uncached) ELSE chunkSize
           chunk == {Hook.uncached[i] : i \in 1..size}
           rest == SubSeq(Hook.uncached, size + 1, Len(Hook.uncached))
       IN \E found \in SUBSET chunk :
             IF rest = <<>>
             THEN output' = [output EXCEPT !.value.cache = @ \cup found,
                                           !.value.uncached = rest,
                                           !.value.completed = TRUE,
                                           !.value.pc = "geocoded"]
             ELSE output' = [output EXCEPT !.value.cache = @ \cup found,
                                           !.value.uncached = rest]
    /\ PreloaderFrame

\* await batchGeocodeAll(addressList) returns: setPreloadStatus({isLoading: false, ...})
PreloadFinished ==
    /\ Hook.pc = "geocoded"
    /\ output' = [output EXCEPT !.value.preloadStatus.isLoading = FALSE,
                                !.value.preloadStatus.cachedAddresses
                                    = Cardinality(Hook.cache),
                                !.value.pc = "returned"]
    /\ PreloaderFrame

PreloaderInit ==
    /\ ServerIdle
    /\ input \in [teams : SeqsUpTo({0, 2}, MaxTeams), addresses : 0..MaxAddresses]
    /\ \E completed \in BOOLEAN, cache \in SUBSET (1..MaxAddresses) :
          output = [op |-> "useGlobalPreloader", value |-> Mounted(completed, cache)]

PreloaderNext ==
    \/ TeamsArrive
    \/ SchedulesArrive
    \/ SchedulesMalformed
    \/ GeocodeChunk
    \/ PreloadFinished

SpecPreloader == PreloaderInit /\ [][PreloaderNext]_vars

\* Every step is the delivery of a response or the resumption of a settled
\* promise, which the event loop does not postpone for ever.
SpecPreloaderLive == SpecPreloader /\ WF_vars(PreloaderNext)

---------------------------------------------------------------------------
(* The Dashboard component (src/unnamed/part_008).  input is the outcome of
   each POST /api/load-csv-data the component will make: the status the server
   answers with, or "network" when no answer arrives.  output.value is the
   component: dataLoaded, the state of loadDataMutation and of the stats query,
   the number of POSTs made, and for every GET /api/dashboard-stats issued
   whether a POST had been answered 200 before it. *)

LoadOutcomes == {"200", "500", "network"}

Dash == output.value

DashboardMounted ==
    [dataLoaded |-> FALSE, mutation |-> "idle", stats |-> "idle", posts |-> 0,
     succeeded |-> FALSE, gets |-> <<>>]

DashboardFrame ==
    UNCHANGED <<files, teamAvailability, optimizedSchedule, travelTimeAnalytics, loadPc,
                pending, resp, pre, everLoaded, servedLoaded, input>>

\* apiRequest of @/lib/queryClient: resolves with the response when the status
\* is 2xx and rejects otherwise.
apiRequest(outcome) ==
    IF outcome = "200" THEN "resolved" ELSE "rejected"

\* Mutant: a stats query that is enabled from the start.
StatsAlwaysEnabled(dataLoaded) ==
    TRUE

\* enabled: dataLoaded
StatsEnabled(dataLoaded) ==
    dataLoaded

\* loadDataMutation.mutate(): the POST is sent.
Mutate ==
    /\ Dash.posts < Len(input)
    /\ output' = [output EXCEPT !.value.mutation = "pending", !.value.posts = @ + 1]
    /\ DashboardFrame

\* useEffect: load on mount, and again after a load that failed.
LoadOnMount ==
    /\ ~Dash.dataLoaded
    /\ Dash.mutation # "pending"
    /\ Mutate

\* The Retry button, shown when neither request is running and stats is empty.
Retry ==
    /\ Dash.mutation # "pending"
    /\ Dash.stats \in {"idle", "error"}
    /\ Mutate

\* The POST is over: onSuccess sets dataLoaded and invalidates the stats query,
\* which is fetched again if it has been fetched before.
LoadSettles ==
    /\ Dash.mutation = "pending"
    /\ LET answered == Dash.succeeded \/ input[Dash.posts] = "200"
       IN IF apiRequest(input[Dash.posts]) = "resolved"
          THEN output' = [output EXCEPT !.value.mutation = "success",
                                        !.value.dataLoaded = TRUE,
                                        !.value.succeeded = answered,
                                        !.value.stats
                                            = IF @ \in {"success", "error"}
                                              THEN "stale" ELSE @]
          ELSE output' = [output EXCEPT !.value.mutation = "error",
                                        !.value.succeeded = answered]
    /\ DashboardFrame

\* The stats query fetches: GET /api/dashboard-stats is sent.
StatsFetch ==
    /\ StatsEnabled(Dash.dataLoaded)
    /\ Dash.stats \in {"idle", "stale"}
    /\ output' = [output EXCEPT !.value.stats = "fetching",
                                !.value.gets = Append(@, Dash.succeeded)]
    /\ DashboardFrame

\* The GET is answered, or fails.
StatsSettles ==
    /\ Dash.stats = "fetching"
    /\ \E result \in {"success", "error"} :
          output' = [output EXCEPT !.value.stats = result]
    /\ DashboardFrame

DashboardInit ==
    /\ ServerIdle
    /\ input \in SeqsUpTo(LoadOutcomes, MaxLoads)
    /\ output = [op |-> "Dashboard", value |-> DashboardMounted]

DashboardNext ==
    \/ LoadOnMount
    \/ Retry
    \/ LoadSettles
    \/ StatsFetch
    \/ StatsSettles

SpecDashboard == DashboardInit /\ [][DashboardNext]_vars

---------------------------------------------------------------------------
(* Claims about the live server *)

Metrics == {"total", "average", "median"}
Views == {"day", "team"}
QueryRoutes == {"dashboard-stats", "travel-time-analysis"}

\* C1: a query (dashboard-stats or travel-time-analysis) that arrives while no
\* load has ever answered with success is answered with status 400 and the
\* not-loaded message, never with a successful result.
C1_QueryBeforeLoadFails ==
    (resp.route \in QueryRoutes /\ ~servedLoaded)
        => /\ resp.status = 400
           /\ resp.message = NotLoadedMessage
           /\ resp.body = <<>>

\* A travel-time-analysis query refused as not loaded while the first load is
\* already filling the schedule store.
C1_Witness ==
    /\ resp.route = "travel-time-analysis"
    /\ resp.message = NotLoadedMessage
    /\ ~servedLoaded
    /\ loadPc = "schedule"
    /\ optimizedSchedule # <<>>

\* C2: after a successful load, travel-time-analysis answers a metric outside
\* {total, average, median} or a view outside {day, team} with status 400 and
\* the invalid-parameter message, and a known metric and view with status 200
\* and a non-empty table.
C2_ParameterValidation ==
    (resp.route = "travel-time-analysis" /\ servedLoaded)
        => IF resp.params[1] \in Metrics /\ resp.params[2] \in Views
           THEN resp.status = 200 /\ Len(resp.body) > 0
           ELSE /\ resp.status = 400
                /\ resp.message = InvalidParameterMessage
                /\ resp.body = <<>>

\* metric = "bogus" refused after a load, and a valid query answered.
C2_Witness ==
    /\ resp.route = "travel-time-analysis"
    /\ servedLoaded
    /\ resp.params = <<"bogus", "day">>
    /\ resp.status = 400
    /\ resp.message = InvalidParameterMessage

AllReadable(f) ==
    /\ f.team.exists => f.team.readable
    /\ f.optimized.exists => f.optimized.readable
    /\ f.original.exists => f.original.readable

\* What a load of f that replaces everything at once would leave.
LoadTarget(f, before) ==
    [teamAvailability |->
        IF f.team.exists THEN MapSeq(f.team.lines, TeamRecord) ELSE before.teamAvailability,
     optimizedSchedule |->
        IF f.optimized.exists THEN MapSeq(f.optimized.lines, ScheduleRecord)
        ELSE before.optimizedSchedule,
     travelTimeAnalytics |-> AnalyticsSnapshot]

\* C3: while a load that will succeed is between its await points, the stores
\* and the snapshot a reader can see are either all as they were before the
\* load or all as the load leaves them.
C3_NoHalfBuiltSnapshot ==
    (loadPc # "idle" /\ AllReadable(files))
        => Observed \in {pre, LoadTarget(files, pre)}

\* C4: after a successful load that follows an earlier successful load, the
\* schedule store holds exactly the rows of the data set just loaded (none for
\* an absent or empty optimized-schedule file).
C4_LoadReplaces ==
    (loadPc = "idle" /\ resp = LoadSucceeded /\ servedLoaded)
        => optimizedSchedule = MapSeq(files.optimized.lines, ScheduleRecord)

\* C5: when a load that follows a successful load reports failure, both stores
\* and the snapshot are what they were when that load began.
C5_FailedLoadChangesNothing ==
    (loadPc = "idle" /\ resp = LoadFailed /\ servedLoaded)
        => Observed = pre

Usable(file) == file.exists /\ file.readable /\ Len(TravelTimesOf(file)) > 0

\* C6: a load whose original or optimized schedule file is absent or has no
\* usable row reports failure and installs no snapshot.
C6_MissingInputFails ==
    (loadPc = "idle" /\ resp.route = "load-csv-data"
        /\ ~(Usable(files.original) /\ Usable(files.optimized)))
        => /\ resp.status = 500
           /\ travelTimeAnalytics = pre.travelTimeAnalytics

TeamOfLabel ==
    ("Team 1" :> "1") @@ ("Team 2" :> "2") @@ ("Team 3" :> "3") @@ ("Team 4" :> "4") @@
    ("Team 5" :> "5") @@ ("Team 6" :> "6") @@ ("Team 7" :> "7") @@ ("Team 8" :> "8") @@
    ("Team 9" :> "9") @@ ("Team 10" :> "10") @@ ("Team 11" :> "11")

\* Sum of the travel-segment minutes of one team in a loaded file.
TeamTravelMinutes(file, team) ==
    SumSeq(TravelTimesOf([file EXCEPT
        !.lines = SelectSeq(file.lines, LAMBDA l : l.teamNumber = team)]))

\* C7: after a successful load, every row of travel-time-analysis/total/team
\* carries the sums of that team's travel minutes in the loaded original and
\* optimized data (values in hundredths).
C7_TeamTotalsFromData ==
    (resp.route = "travel-time-analysis" /\ resp.status = 200
        /\ resp.params = <<"total", "team">>)
        => \A i \in 1..Len(resp.body) :
              LET row == resp.body[i]
              IN /\ row.original
                      = 100 * TeamTravelMinutes(files.original, TeamOfLabel[row.name])
                 /\ row.optimized
                      = 100 * TeamTravelMinutes(files.optimized, TeamOfLabel[row.name])


---------------------------------------------------------------------------
(* Claims about the medians *)

\* The k-th smallest element of a sample, k counted from 0.
OrderStatistic(xs, k) ==
    CHOOSE v \in {xs[i] : i \in 1..Len(xs)} :
        /\ Cardinality({i \in 1..Len(xs) : xs[i] < v}) <= k
        /\ Cardinality({i \in 1..Len(xs) : xs[i] <= v}) > k

LowerMiddle(xs) == OrderStatistic(xs, (Len(xs) - 1) \div 2)
UpperMiddle(xs) == OrderStatistic(xs, Len(xs) \div 2)

MedianOps ==
    {"dashboard-stats", "travel-time-analysis/median/day", "travel-time-analysis/median/team"}

---------------------------------------------------------------------------
(* Claims about the improvement percentages *)

ImprovementOps ==
    {"dashboard-stats/improvement", "calculateTravelTimeSavings",
     "statistics-tab/average", "statistics-tab/median"}

\* The original quantity the percentage of an operation is taken of.
OriginalOperand ==
    IF output.op = "dashboard-stats/improvement" THEN input.originalTotalTravelTime
    ELSE IF output.op = "calculateTravelTimeSavings"
         THEN SumSeq(MapSeq(input.days, OriginalTravelTimeOf))
    ELSE IF output.op = "statistics-tab/average" THEN input.averageTravelTimeOriginal
    ELSE input.medianTravelTimeOriginal

\* C9: every improvement percentage is a finite number, and it is 0 when the
\* original quantity is 0.
C9_ImprovementZeroWhenOriginalZero ==
    output.op \in ImprovementOps
        => /\ output.value.k = "num"
           /\ OriginalOperand = 0 => output.value.n = 0

---------------------------------------------------------------------------
(* Claims about the travel segments *)

SegmentOps == {"optimized-segments", "original-segments"}

SameGroup(i, j) ==
    input[i].dayName = input[j].dayName /\ input[i].teamNumber = input[j].teamNumber

\* Visit j is the next visit of i's team on i's day.
NextVisit(i, j) ==
    /\ SameGroup(i, j)
    /\ parseTime(input[i].startTime) < parseTime(input[j].startTime)
    /\ ~\E k \in 1..Len(input) :
          /\ SameGroup(i, k)
          /\ parseTime(input[i].startTime) < parseTime(input[k].startTime)
          /\ parseTime(input[k].startTime) < parseTime(input[j].startTime)

GapBetween(i, j) == parseTime(input[j].startTime) - parseTime(input[i].endTime)

\* No two visits of i's team on i's day start at the same minute.
DistinctStarts(i) ==
    \A j, k \in 1..Len(input) :
        (SameGroup(i, j) /\ SameGroup(i, k) /\ j # k)
            => parseTime(input[j].startTime) # parseTime(input[k].startTime)

SegmentsFor(i, g) ==
    {n \in 1..Len(output.value) :
        /\ output.value[n].dayName = toLowerCase[input[i].dayName]
        /\ output.value[n].teamNumber = parseFloat(input[i].teamNumber).n
        /\ output.value[n].travelTime = g}

PairsFor(i, g) ==
    {p \in (1..Len(input)) \X (1..Len(input)) :
        SameGroup(i, p[1]) /\ NextVisit(p[1], p[2]) /\ GapBetween(p[1], p[2]) = g}

GapValues ==
    {output.value[n].travelTime : n \in 1..Len(output.value)}
    \cup {GapBetween(p[1], p[2]) : p \in (1..Len(input)) \X (1..Len(input))}

\* C10: every emitted segment has minutes >= 0; and for a team and day whose
\* visits start at distinct minutes, the emitted segments are exactly the
\* non-negative gaps between consecutive visits: a negative gap yields no
\* segment, every other gap yields one.
C10_SegmentsNonNegative ==
    output.op \in SegmentOps
        => /\ \A n \in 1..Len(output.value) : output.value[n].travelTime >= 0
           /\ \A i \in 1..Len(input) : DistinctStarts(i) =>
                \A g \in GapValues :
                    Cardinality(SegmentsFor(i, g))
                        = IF g >= 0 THEN Cardinality(PairsFor(i, g)) ELSE 0

\* Three visits of team 3 on Monday, out of order: 09:00-09:20, 09:10-09:40
\* and 09:40-09:50.  The gap of -10 is dropped, the gap of 0 is emitted.
C10_Witness ==
    /\ input = << [dayName |-> "Monday", customerId |-> "372", teamNumber |-> "3",
                   startTime |-> <<9, 40>>, endTime |-> <<9, 50>>],
                  [dayName |-> "Monday", customerId |-> "102", teamNumber |-> "3",
                   startTime |-> <<9, 0>>, endTime |-> <<9, 20>>],
                  [dayName |-> "Monday", customerId |-> "201", teamNumber |-> "3",
                   startTime |-> <<9, 10>>, endTime |-> <<9, 40>>] >>
    /\ output = [op |-> "optimized-segments",
                 value |-> << [dayName |-> "monday", teamNumber |-> 3, travelTime |-> 0] >>]

\* The rearrangements of a list of rows.
Rearrangements(rows) ==
    LET n == Len(rows)
        Bijections == {f \in [1..n -> 1..n] : \A i, j \in 1..n : i # j => f[i] # f[j]}
    IN {[i \in 1..n |-> rows[f[i]]] : f \in Bijections}

\* How often a segment occurs in a list of segments.
Occurrences(segments, seg) == Cardinality({n \in 1..Len(segments) : segments[n] = seg})

SameMultiset(a, b) ==
    /\ Len(a) = Len(b)
    /\ \A n \in 1..Len(a) : Occurrences(a, a[n]) = Occurrences(b, a[n])

\* C11: the multiset of segments does not depend on the row order of the
\* visits, also when two visits of a team and day start at the same minute.
C11_SegmentsOrderIndependent ==
    output.op = "optimized-segments"
        => \A other \in Rearrangements(input) :
              SameMultiset(OptimizedSegments(other), output.value)

---------------------------------------------------------------------------
(* Claims about the daily statistics *)

\* C12: two calls of calculateDailyStats with the same schedule return the
\* same statistics, field by field.
C12_DailyStatsDeterministic ==
    [][(output.op = "calculateDailyStats" /\ output'.op = "calculateDailyStats")
            => output'.value = output.value]_vars

---------------------------------------------------------------------------
(* Claims about the normalisation of schedule rows *)

NormalizeOps == {"scheduleData", "parseOptimizedScheduleCSV"}

\* C13: no normalised schedule row has a NaN team number, customer id or
\* service duration: a row with such a cell is skipped.
C13_NoNaNRecord ==
    output.op \in NormalizeOps
        => \A n \in 1..Len(output.value) :
              /\ ~isNaN(output.value[n].teamNumber)
              /\ ~isNaN(output.value[n].customerId)
              /\ ~isNaN(output.value[n].serviceDurationMinutes)

---------------------------------------------------------------------------
(* Claims about the file-computing load *)

\* A row with all its columns and a day name.
Complete(line) ==
    /\ \A field \in DOMAIN line : line[field] # Undefined
    /\ line.dayName # ""

WithoutMalformedRows(f) ==
    [optimized |-> SelectSeq(f.optimized, Complete),
     original |-> SelectSeq(f.original, Complete),
     dateShift |-> f.dateShift]

\* C14: a load whose input has a row with too few columns or no day name
\* succeeds, and leaves what it would leave had the row been absent.
C14_MalformedRowSkipped ==
    output.op = "backup-load-csv-data"
        => /\ output.value.status = 200
           /\ output.value = BackupLoadResult(WithoutMalformedRows(input))

---------------------------------------------------------------------------
(* Further claims about the live server *)

\* C15: after a successful load the snapshot's slot counts of every day are
\* the numbers of rows of that day in the loaded original and optimized files.
C15_SlotCountsFromData ==
    (loadPc = "idle" /\ resp = LoadSucceeded)
        => \A key \in DayKeys :
              /\ travelTimeAnalytics.dailySlotCounts[key].originalSlots
                    = SlotsOf(files.original.lines, key)
              /\ travelTimeAnalytics.dailySlotCounts[key].optimizedSlots
                    = SlotsOf(files.optimized.lines, key)

---------------------------------------------------------------------------
(* Claims about the shift distributions *)

\* The input rows that have an offset, and the offset of such a row.
WithOffset ==
    {i \in 1..Len(input.rows) :
        IF input.kind = "schedule"
        THEN input.rows[i].date_shift.k = "num"
        ELSE input.rows[i] \in DOMAIN TokenValue}

OffsetAt(i) ==
    IF input.kind = "schedule" THEN input.rows[i].date_shift.n ELSE TokenValue[input.rows[i]]

BucketsFor(v) == {n \in 1..Len(output.value) : output.value[n].timeShift = v}

\* C16: the distribution has exactly one bucket per offset value of the
\* input, the bucket counts the rows with that offset, the buckets are in
\* strictly ascending offset order, and the counts sum to the number of rows
\* that have an offset.
C16_ShiftDistribution ==
    output.op \in {"calculateTimeShifts", "timeShiftData"}
        => /\ \A i \in WithOffset :
                \E n \in 1..Len(output.value) :
                    /\ BucketsFor(OffsetAt(i)) = {n}
                    /\ output.value[n].customerCount
                          = Cardinality({j \in WithOffset : OffsetAt(j) = OffsetAt(i)})
           /\ \A n \in 1..Len(output.value) :
                \E i \in WithOffset : OffsetAt(i) = output.value[n].timeShift
           /\ \A m, n \in 1..Len(output.value) :
                m < n => output.value[m].timeShift < output.value[n].timeShift
           /\ SumSeq(MapSeq(output.value, LAMBDA b : b.customerCount))
                 = Cardinality(WithOffset)

\* Offsets 1, -1, 1 give the buckets (-1: 1 customer) and (1: 2 customers).
C16_Witness ==
    /\ input = [kind |-> "schedule",
                rows |-> <<[date_shift |-> Num(1)], [date_shift |-> Num(0 - 1)],
                           [date_shift |-> Num(1)]>>]
    /\ output = [op |-> "calculateTimeShifts",
                 value |-> <<[timeShift |-> 0 - 1, customerCount |-> 1],
                             [timeShift |-> 1, customerCount |-> 2]>>]

\* C17: a row without a date shift is counted in no bucket, so the counts of
\* the distribution sum to the number of rows that have one, and a bucket
\* exists only for an offset some row has.
C17_NoShiftNoBucket ==
    output.op \in {"calculateTimeShifts", "dashboard-stats/timeShiftData"}
        => /\ SumSeq(MapSeq(output.value, LAMBDA b : b.customerCount))
                 = Cardinality(WithOffset)
           /\ \A n \in 1..Len(output.value) :
                \E i \in WithOffset : OffsetAt(i) = output.value[n].timeShift

---------------------------------------------------------------------------
(* Claims about the file-computing travel-time analysis *)

\* C18: a request whose metricType is not total, average or median, or whose
\* viewType is not day or team, is never answered with the table of a known
\* metric and view.
C18_NoSilentDefault ==
    (/\ output.op = "file-travel-time-analysis"
     /\ ~(output.value.params[1] \in Metrics /\ output.value.params[2] \in Views))
        => ~(/\ output.value.status = 200
             /\ \E metric \in Metrics, view \in Views :
                   output.value.body = analysisData(metric, view, input))

\* C19: whenever no load is running after a successful load, the stored
\* schedule records are exactly the rows of the loaded optimized file: nothing
\* adds or removes a single record without a reload.
C19_WholeSetReplacement ==
    (loadPc = "idle" /\ everLoaded)
        => optimizedSchedule = MapSeq(files.optimized.lines, ScheduleRecord)

---------------------------------------------------------------------------
(* Claims about the order of a group *)

\* C20: in every group the visits are in ascending start time, and visits
\* with the same start time are in ascending customerId.
C20_GroupOrder ==
    output.op = "optimized-groups"
        => \A g \in 1..Len(output.value) :
              \A i, j \in 1..Len(output.value[g]) :
                 i < j =>
                    LET a == output.value[g][i]
                        b == output.value[g][j]
                    IN \/ a.startMinutes < b.startMinutes
                       \/ /\ a.startMinutes = b.startMinutes
                          /\ TokenValue[a.customerId] <= TokenValue[b.customerId]

---------------------------------------------------------------------------
(* Claims about the number and origin of segments *)

\* The visits of the input that belong to the team and day of a segment.
VisitsOfSegment(seg) ==
    {i \in 1..Len(input) :
        /\ toLowerCase[input[i].dayName] = seg.dayName
        /\ parseFloat(input[i].teamNumber).n = seg.teamNumber}

\* C21: a team and day with n visits yields at most n - 1 segments, a single
\* visit yields none, and every segment is the gap between two visits of its
\* own team and day.
C21_SegmentsWithinGroup ==
    output.op \in SegmentOps
        => /\ \A i \in 1..Len(input) :
                LET group == {j \in 1..Len(input) : SameGroup(i, j)}
                    segments == {n \in 1..Len(output.value) :
                                    i \in VisitsOfSegment(output.value[n])}
                IN Cardinality(segments) <= Cardinality(group) - 1
           /\ \A n \in 1..Len(output.value) :
                \E i, j \in VisitsOfSegment(output.value[n]) :
                    i # j /\ output.value[n].travelTime = GapBetween(i, j)

\* Team 3 has two visits on Monday and team 4 one: one segment, of team 3.
C21_Witness ==
    /\ input = << [dayName |-> "Monday", customerId |-> "102", teamNumber |-> "3",
                   startTime |-> <<9, 0>>, endTime |-> <<9, 20>>],
                  [dayName |-> "Monday", customerId |-> "102", teamNumber |-> "4",
                   startTime |-> <<9, 0>>, endTime |-> <<9, 20>>],
                  [dayName |-> "Monday", customerId |-> "372", teamNumber |-> "3",
                   startTime |-> <<9, 40>>, endTime |-> <<9, 50>>] >>
    /\ output = [op |-> "optimized-segments",
                 value |-> << [dayName |-> "monday", teamNumber |-> 3, travelTime |-> 20] >>]

---------------------------------------------------------------------------
(* Claims about the travel samples *)

\* The pairs of consecutive visits of one team and day whose gap is g.
ConsecutivePairs(g) ==
    {p \in (1..Len(input)) \X (1..Len(input)) :
        NextVisit(p[1], p[2]) /\ GapBetween(p[1], p[2]) = g}

\* C22: when no two visits of a team and day start together, every gap of 0
\* minutes between consecutive visits is one of the samples of the overall
\* statistics.
C22_ZeroGapIsSample ==
    (output.op \in {"allOptimizedTravelTimes", "allOriginalTravelTimes"}
        /\ \A i \in 1..Len(input) : DistinctStarts(i))
        => Cardinality({n \in 1..Len(output.value) : output.value[n] = 0})
              = Cardinality(ConsecutivePairs(0))

---------------------------------------------------------------------------
(* Claims about slot counting by day name *)

\* Two strings are equal when letter case is ignored.
EqualIgnoringCase(a, b) ==
    /\ Len(a) = Len(b)
    /\ \A i \in 1..Len(a) : LowerChar(a[i]) = LowerChar(b[i])

\* C23: a row is counted under a day exactly when its day name is that
\* weekday's name in some letter case.
C23_SlotsByWeekdayName ==
    output.op \in {"load-slot-counts", "dashboard-slot-counts"}
        => \A d \in 1..Len(dayMapping) :
              output.value[d]
                 = Cardinality({i \in 1..Len(input) :
                                   EqualIgnoringCase(input[i], dayMapping[d])})

---------------------------------------------------------------------------
(* Claims about the queries of the live server *)

\* A step taken by one of the two queries: it answers, and it is not a step
\* of a load (those move loadPc or pending, or answer as load-csv-data).
QueryStep ==
    /\ resp'.route \in QueryRoutes
    /\ loadPc' = loadPc
    /\ pending' = pending

\* What the query named in the response r answers from the snapshot analytics.
AnswerFrom(analytics, r) ==
    IF r.route = "dashboard-stats"
    THEN DashboardStatsResponse(analytics)
    ELSE TravelTimeAnalysisResponse(analytics, r.params[1], r.params[2])

\* C24: a dashboard-stats or travel-time-analysis query leaves the snapshot and
\* both stores as they were, and its answer is determined by the snapshot and
\* its parameters, so equal queries between two loads get equal answers.
C24_QueriesReadOnly ==
    [][QueryStep => /\ Observed' = Observed
                    /\ files' = files
                    /\ resp' = AnswerFrom(travelTimeAnalytics, resp')]_vars

\* A successful team table served while the stores hold loaded records.
C24_Witness ==
    /\ resp.route = "travel-time-analysis"
    /\ resp.status = 200
    /\ resp.params = <<"median", "team">>
    /\ loadPc = "idle"
    /\ travelTimeAnalytics.defined
    /\ Len(optimizedSchedule) = MaxRows
    /\ teamAvailability # <<>>

\* C28: a travel-time-analysis query answered while no snapshot is installed
\* gets the not-loaded failure whatever its metric and view are; the
\* invalid-parameter failure is only ever given with a snapshot installed.
C28_NotLoadedBeforeParameters ==
    resp.route = "travel-time-analysis"
        => /\ ~servedLoaded => (resp.status = 400 /\ resp.message = NotLoadedMessage)
           /\ resp.message = InvalidParameterMessage => servedLoaded

\* An unknown metric and view asked before any load: refused as not loaded.
C28_Witness ==
    /\ resp.route = "travel-time-analysis"
    /\ resp.params = <<"bogus", "week">>
    /\ ~servedLoaded
    /\ resp.status = 400
    /\ resp.message = NotLoadedMessage

\* C29: once a load has succeeded the snapshot stays installed: every query
\* answered afterwards with valid parameters succeeds, a query made in any
\* later state would succeed, and a failed load leaves the snapshot it found.
C29_SnapshotStays ==
    /\ everLoaded
          => /\ travelTimeAnalytics.defined
             /\ DashboardStatsResponse(travelTimeAnalytics).status = 200
             /\ \A metric \in Metrics, view \in Views :
                   TravelTimeAnalysisResponse(travelTimeAnalytics, metric, view).status = 200
    /\ (resp.route \in QueryRoutes /\ servedLoaded) => resp.status = 200
    /\ (loadPc = "idle" /\ resp = LoadFailed)
          => travelTimeAnalytics = pre.travelTimeAnalytics

\* A query answered with success although the load before it failed, after an
\* earlier load had succeeded.
C29_Witness ==
    /\ everLoaded
    /\ ~AllReadable(files)
    /\ loadPc = "idle"
    /\ pre.travelTimeAnalytics.defined
    /\ resp.route = "dashboard-stats"
    /\ resp.status = 200

Labels(table) == [i \in 1..Len(table) |-> table[i].name]

\* C30: for one view the total, average and median tables list the same
\* labels in the same order, and no table lists a label twice.
C30_SameLabels ==
    (resp.route = "travel-time-analysis" /\ resp.status = 200)
        => /\ \A metric \in Metrics :
                 Labels(ChartData(metric, resp.params[2])) = Labels(resp.body)
           /\ \A i, j \in 1..Len(resp.body) :
                 resp.body[i].name = resp.body[j].name => i = j

---------------------------------------------------------------------------
(* Claims about concurrent bulk creation *)

\* C25: when two concurrent bulkCreateOptimizedSchedule calls have both
\* returned, the store holds exactly the records of one of the two data sets,
\* and so never more records than the larger data set has.
C25_OneDataSetWins ==
    (output.op = "bulkCreateOptimizedSchedule"
        /\ \A c \in Callers : output.value[c].pc = "returned")
        => /\ \E c \in Callers : optimizedSchedule = input[c]
           /\ \E c \in Callers : Len(optimizedSchedule) <= Len(input[c])

---------------------------------------------------------------------------
(* Claims about the preloader *)

PreloadCompleted == output.op = "useGlobalPreloader" /\ Hook.completed

IsLoading == output.op = "useGlobalPreloader" /\ Hook.preloadStatus.isLoading

\* C26: whenever preloading has been marked complete, the isLoading the hook
\* reports becomes false at some later time (or is false already).
C26_LoadingEnds == [](PreloadCompleted => <>(~IsLoading))

---------------------------------------------------------------------------
(* Claims about the Dashboard component *)

====
